---- MODULE Spec2Model ----
(***************************************************************************)
(* Multi-account order execution of cp_trade: AccountManager,              *)
(* ThreadedOrchestrator, InstrumentResolver, OrderExecutor and             *)
(* BasketOrderExecutor, modelled from the Python sources.                  *)
(*                                                                         *)
(* Representation.                                                         *)
(*  - Python None is NoneVal.  A dict is a function; d.get(k) is Get(d,k). *)
(*  - An Instrument namedtuple is represented by its token field (the only *)
(*    field the code ever inspects): "" is an Instrument whose token is    *)
(*    empty, "T1" an Instrument with a token.  NoTokenAttr is an object    *)
(*    that has no attribute token.                                         *)
(*  - An instrument key is the sequence of its underscore-free segments:   *)
(*    <<"INFY">> is "INFY", <<"NIFTY","DEC30","CE","26000">> is            *)
(*    "NIFTY_DEC30_CE_26000"; f"{a}_{b}" is concatenation of segments.     *)
(*  - A remote call is an input of the model: its outcome (a raised        *)
(*    exception or a returned value) is drawn from a small set.            *)
(***************************************************************************)
EXTENDS Integers, Sequences, FiniteSets, TLC

\* ------------------------------------------------------------------------
\* Bounds of the model
\* ------------------------------------------------------------------------
MaxRespLen == 2
MaxCalls == 3
MaxLegs == 2
NumAccounts == 2
MaxOrders == 2
MaxBaskets == 1

\* ------------------------------------------------------------------------
\* Values
\* ------------------------------------------------------------------------
NoneVal == "None"
Missing == "<missing>"
NoTokenAttr == "<no token attribute>"
EmptyTok == ""
ValidTokens == {"T1"}
Raised == "<raised>"

\* instruments.get(key), cache.get(key): the value, or None for an absent key
Get(d, k) == IF k \in DOMAIN d THEN d[k] ELSE NoneVal

EmptyDict == [k \in {} |-> NoneVal]

\* d[k] = v on a dict
Put(d, k, v) == [x \in (DOMAIN d) \cup {k} |-> IF x = k THEN v ELSE d[x]]

\* A test that looks at the instrument only and not at its token
Unresolved_absent_only(instrument) == instrument = NoneVal

\* Python truthiness of the expression `not instrument or not instrument.token`
\* (an Instrument namedtuple is a non-empty tuple, hence truthy; None and the
\* empty string are falsy)
Unresolved(instrument) == instrument = NoneVal \/ instrument = EmptyTok

\* A test of the resolved instrument that looks at the object only
resolved_any_object(instrument) == instrument # NoneVal

\* `if instrument and instrument.token:` on what resolve_equity returned
resolved_with_token(instrument) == ~Unresolved(instrument)

\* A test that takes every key for an equity symbol
HasUnderscore_never(key) == FALSE

\* "_" in instrument_key
HasUnderscore(key) == Len(key) > 1

\* ------------------------------------------------------------------------
\* OrderExecutor
\* ------------------------------------------------------------------------

\* Members of the pya3 enums that getattr(TransactionType, ...), getattr(OrderType, ...)
\* and getattr(ProductType, ...) find; any other name raises AttributeError.
TransactionTypeNames == {"Buy", "Sell"}
OrderTypeNames == {"Market", "Limit", "StopLossLimit", "StopLossMarket"}
ProductTypeNames == {"Intraday", "Delivery", "CoverOrder", "BracketOrder"}

\* What alice.place_order / alice.place_basket_order may give back: an exception,
\* or a list (of per-order dicts), a dict, or a value of any other type.
RespEntries == [stat : {"Ok", "Not_Ok"}, NOrdNo : {"N1", Missing}]

ListsUpTo(S, n) == UNION {[1..k -> S] : k \in 0..n}

ListResponses == {[type |-> "list", stat |-> Missing, NOrdNo |-> Missing, elems |-> l] :
                    l \in ListsUpTo(RespEntries, MaxRespLen)}

DictResponses == {[type |-> "dict", stat |-> s, NOrdNo |-> n, elems |-> <<>>] :
                    s \in {"Ok", "Not_Ok", Missing}, n \in {"N1", Missing}}

OtherResponse == [type |-> "other", stat |-> Missing, NOrdNo |-> Missing, elems |-> <<>>]

Responses == ListResponses \cup DictResponses \cup {OtherResponse}

RaiseOutcome == [type |-> "raise", stat |-> Missing, NOrdNo |-> Missing, elems |-> <<>>]

PlaceOutcomes == Responses \cup {RaiseOutcome}

\* response.get('NOrdNo')
DictGetField(v) == IF v = Missing THEN NoneVal ELSE v

\* A _process_response that validates the elements of a list response
process_response_validating(response) ==
    IF response.type = "list"
    THEN [success |-> /\ Len(response.elems) > 0
                      /\ \A i \in 1..Len(response.elems) : response.elems[i].stat = "Ok",
          order_number |-> NoneVal, raw_response |-> response,
          message |-> IF Len(response.elems) = 0 THEN "Empty response" ELSE "Response"]
    ELSE IF response.type = "dict"
    THEN [success |-> response.stat = "Ok",
          order_number |-> IF response.stat = "Ok" THEN DictGetField(response.NOrdNo) ELSE NoneVal,
          raw_response |-> response,
          message |-> IF response.stat = "Ok" THEN "Order placed" ELSE "Order failed"]
    ELSE [success |-> FALSE, order_number |-> NoneVal, raw_response |-> response,
          message |-> "Unexpected response type"]

\* OrderExecutor._process_response
process_response(response) ==
    IF response.type = "list"
    THEN IF Len(response.elems) = 0
         THEN [success |-> FALSE, order_number |-> NoneVal, raw_response |-> response,
               message |-> "Empty response"]
         ELSE [success |-> TRUE, order_number |-> NoneVal, raw_response |-> response,
               message |-> "Response"]
    ELSE IF response.type = "dict"
    THEN IF response.stat = "Ok"
         THEN [success |-> TRUE, order_number |-> DictGetField(response.NOrdNo),
               raw_response |-> response, message |-> "Order placed"]
         ELSE [success |-> FALSE, order_number |-> NoneVal, raw_response |-> response,
               message |-> "Order failed"]
    ELSE [success |-> FALSE, order_number |-> NoneVal, raw_response |-> response,
          message |-> "Unexpected response type"]

NoResult == [success |-> FALSE, order_number |-> NoneVal, raw_response |-> OtherResponse,
             message |-> "<no result>"]

\* The guard of place_order: `not instrument or not hasattr(instrument, 'token')`
invalid_instrument(instrument) ==
    instrument = NoneVal \/ instrument = NoTokenAttr

\* the exception the remote place_order call raises
RemoteError == "RemoteError"

\* A place_order without the except clause: the exception of the remote call
\* leaves as it is
reraise_remote_error(error) == [raised |-> error, message |-> error]

\* except Exception as e: raise OrderExecutionError(f"API Error: {str(e)}")
raise_OrderExecutionError(error) ==
    [raised |-> "OrderExecutionError", message |-> "API Error"]

\* the names every Python class has as attributes besides its enum members
ClassAttributeNames == {"__doc__", "__name__", "__module__"}

\* getattr(TransactionType, transaction_type): it returns the member of that
\* name, or the class attribute of that name, and raises AttributeError for
\* any other name
has_attribute(members, name) == name \in members \cup ClassAttributeNames

\* the optional parameters of place_order; None is NoneVal, a price is a
\* decimal string and the after-market flag is "True" or "False"
OptionalNames == {"price", "trigger_price", "stop_loss", "square_off", "trailing_sl", "is_amo"}

\* price: float = 0.0, trigger_price ... trailing_sl = None, is_amo: bool = False
DefaultOptional ==
    [price |-> "0.0", trigger_price |-> NoneVal, stop_loss |-> NoneVal,
     square_off |-> NoneVal, trailing_sl |-> NoneVal, is_amo |-> "False"]

\* {k: v for k, v in order_params.items() if v is not None}, for the optional
\* fields of order_params: the other fields are never None
drop_none(optional) ==
    [k \in {n \in OptionalNames : optional[n] # NoneVal} |-> optional[k]]

\* BasketOrderExecutor._build_order_dict, the optional fields of a leg whose
\* price is a number: the price when it is greater than 0, the fields that
\* are not None, and is_amo when it is true
basket_optional_fields(optional) ==
    [k \in {n \in OptionalNames :
               IF n = "price" THEN optional[n] \notin {"0.0", NoneVal}
               ELSE IF n = "is_amo" THEN optional[n] = "True"
               ELSE optional[n] # NoneVal} |-> optional[k]]

\* OrderExecutor.place_order: what it raises ("none" when it returns), what it
\* returns, and the remote calls it issued.
place_order(instrument, transaction_type, order_type, product_type, optional, order_tag, outcome) ==
    IF invalid_instrument(instrument)
    THEN [raised |-> "OrderExecutionError", message |-> "Invalid instrument",
          result |-> NoResult, remote |-> <<>>]
    ELSE IF ~has_attribute(TransactionTypeNames, transaction_type)
            \/ ~has_attribute(OrderTypeNames, order_type)
            \/ ~has_attribute(ProductTypeNames, product_type)
    THEN [raised |-> "AttributeError", message |-> "no such enum member",
          result |-> NoResult, remote |-> <<>>]
    ELSE LET call == [call |-> "place_order", instrument |-> instrument,
                      transaction_type |-> transaction_type,
                      order_type |-> order_type, product_type |-> product_type,
                      optional |-> drop_none(optional),
                      order_tag |-> order_tag]
         IN IF outcome.type = "raise"
            THEN raise_OrderExecutionError(RemoteError)
                    @@ [result |-> NoResult, remote |-> <<call>>]
            ELSE [raised |-> "none", message |-> "",
                  result |-> process_response(outcome), remote |-> <<call>>]

\* ------------------------------------------------------------------------
\* InstrumentResolver
\* ------------------------------------------------------------------------

\* What alice.get_instrument_by_symbol / alice.get_instrument_for_fno may give
\* back: an exception, an object with attributes (token possibly missing), a
\* dict (token key possibly missing), or a value of any other type.
LookupResults ==
    {[shape |-> "raise", token |-> Missing], [shape |-> "other", token |-> Missing]}
    \cup {[shape |-> s, token |-> t] :
             s \in {"obj", "dict"}, t \in {Missing, EmptyTok} \cup ValidTokens}

\* InstrumentResolver._normalize_instrument: the Instrument, or Raised.  The
\* check of an empty token is commented out in the source.
_normalize_instrument(result) ==
    IF result.shape = "obj"
    THEN IF result.token = Missing THEN Raised ELSE result.token
    ELSE IF result.shape = "dict"
    THEN IF result.token = Missing THEN EmptyTok ELSE result.token
    ELSE Raised

\* A resolver without the except clause: the exception of the lookup reaches
\* the caller
lookup_on_miss_propagating(cache, key, call, result) ==
    LET instrument == IF result.shape = "raise" THEN Raised
                      ELSE _normalize_instrument(result)
    IN IF instrument = Raised
       THEN [ret |-> Raised, cache |-> cache, remote |-> <<call>>]
       ELSE [ret |-> instrument, cache |-> Put(cache, key, instrument), remote |-> <<call>>]

\* The try block of resolve_equity / resolve_fno on a cache miss: one remote
\* call; the normalized instrument is cached and returned; any exception gives
\* None and leaves the cache as it is.
lookup_on_miss(cache, key, call, result) ==
    LET instrument == IF result.shape = "raise" THEN Raised
                      ELSE _normalize_instrument(result)
    IN IF instrument = Raised
       THEN [ret |-> NoneVal, cache |-> cache, remote |-> <<call>>]
       ELSE [ret |-> instrument, cache |-> Put(cache, key, instrument), remote |-> <<call>>]

\* InstrumentResolver.resolve_equity; symbol is given by its segments
resolve_equity(cache, exchange, symbol, result) ==
    LET key == <<exchange>> \o symbol
    IN IF key \in DOMAIN cache
       THEN [ret |-> cache[key], cache |-> cache, remote |-> <<>>]
       ELSE lookup_on_miss(cache, key,
                           [call |-> "get_instrument_by_symbol", key |-> key], result)

\* InstrumentResolver.resolve_fno
resolve_fno(cache, exchange, symbol, expiry_date, is_fut, strike, is_ce, result) ==
    LET opt_type == IF is_fut THEN "FUT"
                    ELSE (IF is_ce THEN "CE" ELSE "PE") \o strike
        key == <<exchange, symbol, expiry_date, opt_type>>
    IN IF key \in DOMAIN cache
       THEN [ret |-> cache[key], cache |-> cache, remote |-> <<>>]
       ELSE lookup_on_miss(cache, key,
                           [call |-> "get_instrument_for_fno", key |-> key], result)

\* ------------------------------------------------------------------------
\* BasketOrderExecutor
\* ------------------------------------------------------------------------

\* order_data.get("price", 0.0), order_data.get("trigger_price"), ...: the
\* optional fields of an order of the configuration, with their defaults
LegOptional(order_data) ==
    IF "optional" \in DOMAIN order_data THEN order_data.optional ELSE DefaultOptional

\* A dynamic resolution that asks the resolver a second time when the first
\* attempt gave nothing
attempt_resolution_retrying(cache, instrument_key, result) ==
    LET r1 == resolve_equity(cache, "NSE", instrument_key, result)
        r2 == resolve_equity(r1.cache, "NSE", instrument_key, result)
    IN IF ~Unresolved(r1.ret)
       THEN [ret |-> r1.ret, cache |-> r1.cache, remote |-> r1.remote,
             attempts |-> <<instrument_key>>]
       ELSE [ret |-> r2.ret, cache |-> r2.cache, remote |-> r1.remote \o r2.remote,
             attempts |-> <<instrument_key, instrument_key>>]

\* instrument = self.resolver.resolve_equity("NSE", instrument_key): the one
\* call of _build_order_dict; attempts lists the symbols resolve_equity was
\* called with
attempt_resolution(cache, instrument_key, result) ==
    LET r == resolve_equity(cache, "NSE", instrument_key, result)
    IN [ret |-> r.ret, cache |-> r.cache, remote |-> r.remote,
        attempts |-> <<instrument_key>>]

\* BasketOrderExecutor._build_order_dict on one leg.  hasTable: the resolver
\* has the attribute instruments (main.py sets it when it distributes the
\* table); result: what the remote lookup gives if one is issued.
\* On success the leg's order dict; on an exception raised |-> TRUE.  The
\* writes to resolver.instruments and to the resolver cache stay either way.
_build_order_dict(order_data, hasTable, table, cache, result) ==
    LET fail(msg, c, rem, att) ==
            [raised |-> TRUE, message |-> msg, order_dict |-> <<>>,
             table |-> table, cache |-> c, remote |-> rem, attempts |-> att]
        built(instrument, t, c, rem, att) ==
            IF \/ ~has_attribute(TransactionTypeNames, order_data.transaction_type)
               \/ ~has_attribute(OrderTypeNames, order_data.order_type)
               \/ ~has_attribute(ProductTypeNames, order_data.product_type)
            THEN [raised |-> TRUE, message |-> "AttributeError", order_dict |-> <<>>,
                  table |-> t, cache |-> c, remote |-> rem, attempts |-> att]
            ELSE [raised |-> FALSE, message |-> "",
                  order_dict |-> <<[instrument |-> instrument,
                                    key |-> order_data.instrument,
                                    optional |-> basket_optional_fields(
                                                     LegOptional(order_data)),
                                    order_tag |-> order_data.order_tag]>>,
                  table |-> t, cache |-> c, remote |-> rem, attempts |-> att]
    IN IF ~order_data.has_instrument THEN fail("KeyError: instrument", cache, <<>>, <<>>)
       ELSE IF ~hasTable THEN fail("AttributeError: instruments", cache, <<>>, <<>>)
       ELSE LET instrument_key == order_data.instrument
                instrument == Get(table, instrument_key)
            IN IF Unresolved(instrument)
               THEN IF ~HasUnderscore(instrument_key)
                    THEN LET r == attempt_resolution(cache, instrument_key, result)
                         IN IF resolved_with_token(r.ret)
                            THEN built(r.ret, Put(table, instrument_key, r.ret),
                                       r.cache, r.remote, r.attempts)
                            ELSE fail("Invalid instrument (dynamic resolution failed)",
                                      r.cache, r.remote, r.attempts)
                    ELSE fail("Invalid F&O instrument", cache, <<>>, <<>>)
               ELSE built(instrument, table, cache, <<>>, <<>>)

\* The loop of execute_basket over the legs, lookups[i] being what a remote
\* lookup for leg i gives.  stopAtFailure: the first leg that fails to build
\* ends the loop (the return in the except clause).  attempts[i] lists the
\* resolve_equity calls made for leg i, for each leg the loop came to.
build_orders_with(stopAtFailure, orders, hasTable, table, cache, lookups) ==
    LET F[i \in 0..Len(orders)] ==
            IF i = 0
            THEN [failed |-> FALSE, message |-> "", basket |-> <<>>, table |-> table,
                  cache |-> cache, remote |-> <<>>, attempts |-> <<>>]
            ELSE LET p == F[i-1]
                 IN IF p.failed THEN p
                    ELSE LET b == _build_order_dict(orders[i], hasTable, p.table,
                                                    p.cache, lookups[i])
                         IN [failed |-> stopAtFailure /\ b.raised,
                             message |-> IF b.raised THEN b.message ELSE p.message,
                             basket |-> p.basket \o b.order_dict,
                             table |-> b.table, cache |-> b.cache,
                             remote |-> p.remote \o b.remote,
                             attempts |-> Append(p.attempts, b.attempts)]
    IN F[Len(orders)]

\* A loop that skips a leg that fails to build and goes on with the next
build_orders_skipping(orders, hasTable, table, cache, lookups) ==
    build_orders_with(FALSE, orders, hasTable, table, cache, lookups)

build_orders(orders, hasTable, table, cache, lookups) ==
    build_orders_with(TRUE, orders, hasTable, table, cache, lookups)

\* A loop that collects the NOrdNo of every entry that has one, whatever its stat
AnyOrderNumbers(elems) ==
    LET F[i \in 0..Len(elems)] ==
            IF i = 0 THEN <<>>
            ELSE IF elems[i].NOrdNo # Missing
                 THEN Append(F[i-1], elems[i].NOrdNo)
                 ELSE F[i-1]
    IN F[Len(elems)]

\* for idx, resp in enumerate(response): the NOrdNo of the entries with stat "Ok"
\* and a truthy NOrdNo, in response order
OkOrderNumbers(elems) ==
    LET F[i \in 0..Len(elems)] ==
            IF i = 0 THEN <<>>
            ELSE IF elems[i].stat = "Ok" /\ elems[i].NOrdNo \notin {Missing, ""}
                 THEN Append(F[i-1], elems[i].NOrdNo)
                 ELSE F[i-1]
    IN F[Len(elems)]

\* BasketOrderExecutor._process_basket_response
_process_basket_response(basket_name, response) ==
    LET base == [success |-> FALSE, basket_name |-> basket_name, raw_response |-> response,
                 order_numbers |-> <<>>, message |-> ""]
    IN IF response.type = "list"
       THEN IF Len(response.elems) = 0
            THEN [base EXCEPT !.message = "Empty response from basket order"]
            ELSE [base EXCEPT !.success = TRUE, !.message = "Basket executed",
                              !.order_numbers = OkOrderNumbers(response.elems)]
       ELSE IF response.type = "dict"
       THEN IF response.stat = "Ok"
            THEN [base EXCEPT !.success = TRUE, !.message = "Order placed",
                              !.order_numbers = <<DictGetField(response.NOrdNo)>>]
            ELSE [base EXCEPT !.message = "Basket failed"]
       ELSE [base EXCEPT !.message = "Unexpected response type"]

\* A skip test that forgets the enabled flag
skip_message_ignoring_enabled(basket_config) ==
    IF basket_config.orders = <<>> THEN "Empty basket" ELSE ""

\* The two early returns of execute_basket: the message of the failure result
\* it returns, "" when it goes on
skip_message(basket_config) ==
    IF ~basket_config.enabled THEN "Basket disabled"
    ELSE IF basket_config.orders = <<>> THEN "Empty basket"
    ELSE ""

\* An execute_basket without the except clause: the exception of the remote
\* call leaves as it is
reraise_basket_error(error) == error

\* except Exception as e: raise BasketOrderExecutionError(f"API Error: {str(e)}")
raise_BasketOrderExecutionError(error) == "BasketOrderExecutionError"

\* BasketOrderExecutor.execute_basket: what it raises ("none" when it returns),
\* what it returns, the remote calls it issued and what it leaves in
\* resolver.instruments and in the resolver cache.
execute_basket(basket_config, hasTable, table, cache, lookups, outcome) ==
    IF skip_message(basket_config) # ""
    THEN [raised |-> "none",
          result |-> [success |-> FALSE, message |-> skip_message(basket_config)],
          table |-> table, cache |-> cache, remote |-> <<>>,
          attempts |-> <<>>]
    ELSE LET b == build_orders(basket_config.orders, hasTable, table, cache, lookups)
             call == [call |-> "place_basket_order", basket |-> b.basket]
         IN IF b.failed
            THEN [raised |-> "none",
                  result |-> [success |-> FALSE, message |-> "Order build failed"],
                  table |-> b.table, cache |-> b.cache, remote |-> b.remote,
                  attempts |-> b.attempts]
            ELSE IF outcome.type = "raise"
            THEN [raised |-> raise_BasketOrderExecutionError(RemoteError),
                  result |-> [success |-> FALSE, message |-> "API Error"],
                  table |-> b.table, cache |-> b.cache,
                  remote |-> Append(b.remote, call), attempts |-> b.attempts]
            ELSE [raised |-> "none",
                  result |-> _process_basket_response(basket_config.name, outcome),
                  table |-> b.table, cache |-> b.cache,
                  remote |-> Append(b.remote, call), attempts |-> b.attempts]

\* ------------------------------------------------------------------------
\* Keys, order specifications, accounts
\* ------------------------------------------------------------------------
PlainKey == <<"INFY">>
FnoKey == <<"NIFTY", "DEC30", "CE", "26000">>

Dicts(K, V) == UNION {[D -> V] : D \in SUBSET K}

\* What a resolution stores: an Instrument, its token empty or not
StoredInstruments == {EmptyTok} \cup ValidTokens

OrderSpec(has, key, txn, tag) ==
    [has_instrument |-> has, instrument |-> key, enabled |-> TRUE,
     transaction_type |-> txn, order_type |-> "Market", product_type |-> "Intraday",
     order_tag |-> tag]

AccountNames == <<"A", "B", "C", "D", "E", "F", "G", "H">>

Accounts == {AccountNames[i] : i \in 1..NumAccounts}

Range(seq) == {seq[i] : i \in 1..Len(seq)}

\* A pool sized by the workload alone
Min_workload(a, b) == b

\* min(a, b)
Min(a, b) == IF a < b THEN a ELSE b

\* ------------------------------------------------------------------------
\* State
\* ------------------------------------------------------------------------
VARIABLES
    ex,               \* an OrderExecutor called on its own: arguments and outcome
    rs,               \* an InstrumentResolver called on its own: cache and calls
    bk,               \* a BasketOrderExecutor called on its own
    caller,           \* "run": TradingTestSuite.run drives the components;
                      \* "direct": another caller of the same public methods
    accounts_config,  \* the account descriptors, in configuration order
    phase,            \* where the driver is
    abort,            \* the exception that ended the driver, "" if none
    configured_max,   \* ThreadedOrchestrator.max_workers
    max_workers,      \* max_workers of the ThreadPoolExecutor in use
    submitted,        \* the accounts whose task was submitted, in submit order
    task,             \* per account: the state of its future
    exc,              \* per account: the exception its task raised
    collected,        \* initialize_all: the futures as_completed has yielded
    sessions,         \* AccountManager.sessions: the keys, in insertion order
    hasTable,         \* the sessions whose resolver has the attribute instruments
    instruments,      \* the shared instrument table (TradingTestSuite.instruments)
    cache,            \* per account: InstrumentResolver.cache of its session
    order_config,     \* the order list handed to execute_on_all_accounts
    baskets_config,   \* the basket list handed to execute_basket_on_all_accounts
    pos,              \* per account: index of the order / basket its task is at
    step,             \* per account: where in the loop body its task is
    account_results,  \* per account: the local result list of its task
    results,          \* the results dict of the orchestrator method
    events            \* per account: remote calls and log lines, in program order

unitVars == <<ex, rs, bk>>

mainVars == <<caller, accounts_config, phase, abort, configured_max, max_workers, submitted, task, exc,
              collected, sessions, hasTable, instruments, cache, order_config,
              baskets_config, pos, step, account_results, results, events>>

vars == <<unitVars, mainVars>>

\* ------------------------------------------------------------------------
\* OrderExecutor called on its own
\* ------------------------------------------------------------------------
InstrumentArgs == {NoneVal, NoTokenAttr, EmptyTok} \cup ValidTokens

\* the optional parameters a call is made with: the defaults, a limit price,
\* an after-market order with a trigger price, and a price given as None
OptionalArgs ==
    {DefaultOptional,
     [DefaultOptional EXCEPT !.price = "10.5"],
     [DefaultOptional EXCEPT !.is_amo = "True", !.trigger_price = "9.5"],
     [DefaultOptional EXCEPT !.price = NoneVal]}

ExArgs == [instrument : InstrumentArgs,
           transaction_type : {"Buy", "Hold", "__doc__"},
           order_type : {"Market", "Bogus"},
           product_type : {"Intraday", "Bogus"},
           optional : OptionalArgs,
           outcome : PlaceOutcomes]

\* The components called on their own leave the driver's state alone
MainIdle ==
    /\ caller = "none"
    /\ accounts_config = <<>>
    /\ phase = "idle"
    /\ abort = ""
    /\ configured_max = 0
    /\ max_workers = 0
    /\ submitted = <<>>
    /\ task = [a \in Accounts |-> "none"]
    /\ exc = [a \in Accounts |-> ""]
    /\ collected = {}
    /\ sessions = <<>>
    /\ hasTable = {}
    /\ instruments = EmptyDict
    /\ cache = [a \in Accounts |-> EmptyDict]
    /\ order_config = <<>>
    /\ baskets_config = <<>>
    /\ pos = [a \in Accounts |-> 0]
    /\ step = [a \in Accounts |-> ""]
    /\ account_results = [a \in Accounts |-> <<>>]
    /\ results = EmptyDict
    /\ events = [a \in Accounts |-> <<>>]

ExIdle == [pc |-> "idle"]
RsIdle == [cache |-> EmptyDict, calls |-> <<>>]
BkIdle == [pc |-> "idle"]

InitExecutor ==
    /\ \E a \in ExArgs : ex = [pc |-> "call", args |-> a]
    /\ rs = RsIdle
    /\ bk = BkIdle
    /\ MainIdle

CallPlaceOrder ==
    /\ ex.pc = "call"
    /\ ex' = [pc |-> "done", args |-> ex.args,
              out |-> place_order(ex.args.instrument, ex.args.transaction_type,
                                  ex.args.order_type, ex.args.product_type,
                                  ex.args.optional, <<>>, ex.args.outcome)]
    /\ UNCHANGED <<rs, bk, mainVars>>

NextExecutor == CallPlaceOrder

SpecExecutor == InitExecutor /\ [][NextExecutor]_vars

\* C5: place_order called with an absent instrument or with an instrument whose
\* token is empty fails with the invalid-instrument error and issues no remote
\* place_order call.
C5_InvalidInstrumentFailsLocally ==
    (ex.pc = "done" /\ ex.args.instrument \in {NoneVal, NoTokenAttr, EmptyTok})
        => /\ ex.out.raised = "OrderExecutionError"
           /\ ex.out.message = "Invalid instrument"
           /\ ex.out.remote = <<>>

\* C9: the response normalization of place_order is the three-way classification:
\* a dict with stat "Ok" gives success with the order number of the response; a
\* non-empty list gives success with no order number, whatever its elements;
\* an empty list, a dict without an "Ok" stat and any other type give failure.
C9_ResponseClassification ==
    (ex.pc = "done" /\ ex.out.raised = "none") =>
        LET response == ex.args.outcome
            result == ex.out.result
        IN /\ result.raw_response = response
           /\ (response.type = "dict" /\ response.stat = "Ok")
                => /\ result.success
                   /\ result.order_number =
                        (IF response.NOrdNo = Missing THEN NoneVal ELSE response.NOrdNo)
           /\ (response.type = "list" /\ response.elems # <<>>)
                => (result.success /\ result.order_number = NoneVal)
           /\ (\/ (response.type = "list" /\ response.elems = <<>>)
               \/ (response.type = "dict" /\ response.stat # "Ok")
               \/ response.type \notin {"list", "dict"})
                => (~result.success /\ result.order_number = NoneVal)

\* A non-empty list response holding an entry that is not "Ok" was classified
C9_Witness ==
    /\ ex.pc = "done"
    /\ ex.out.raised = "none"
    /\ ex.args.outcome.type = "list"
    /\ Len(ex.args.outcome.elems) = MaxRespLen
    /\ ex.args.outcome.elems[1].stat = "Not_Ok"
    /\ ex.out.result.success

\* ------------------------------------------------------------------------
\* InstrumentResolver called on its own: a sequence of resolve_equity and
\* resolve_fno calls on one resolver
\* ------------------------------------------------------------------------
Exchanges == {"NSE", "MCX"}
Symbols == {<<"INFY">>, <<"GOLD">>}
FnoSymbols == {"NIFTY"}
Expiries == {"2025-12-30"}
Strikes == {"26000"}

\* what the remote lookup of a call gave back; NoLookup when the call was
\* served from the cache
NoLookup == [shape |-> "none", token |-> Missing]

ResolverCall(op, args, result, r) ==
    /\ Len(rs.calls) < MaxCalls
    /\ rs' = [cache |-> r.cache,
              calls |-> Append(rs.calls, [op |-> op, args |-> args, ret |-> r.ret,
                                          remote |-> r.remote, before |-> rs.cache,
                                          lookup |-> IF r.remote = <<>> THEN NoLookup
                                                     ELSE result])]
    /\ UNCHANGED <<ex, bk, mainVars>>

CallResolveEquity ==
    \E exchange \in Exchanges, symbol \in Symbols, result \in LookupResults :
        ResolverCall("resolve_equity", <<exchange, symbol>>, result,
                     resolve_equity(rs.cache, exchange, symbol, result))

CallResolveFno ==
    \E exchange \in {"NFO"}, symbol \in FnoSymbols, expiry_date \in Expiries,
       is_fut \in BOOLEAN, strike \in Strikes, is_ce \in BOOLEAN,
       result \in LookupResults :
        ResolverCall("resolve_fno", <<exchange, symbol, expiry_date, is_fut, strike, is_ce>>,
                     result,
                     resolve_fno(rs.cache, exchange, symbol, expiry_date, is_fut,
                                 strike, is_ce, result))

InitResolver ==
    /\ rs = RsIdle
    /\ bk = BkIdle
    /\ MainIdle
    /\ ex = ExIdle

NextResolver == CallResolveEquity \/ CallResolveFno

SpecResolver == InitResolver /\ [][NextResolver]_vars

\* C8: of two successive calls of resolve_equity or of resolve_fno with the same
\* inputs, the second issues no remote lookup; a call on a cache miss issues
\* exactly one remote lookup.
C8_SecondCallNoRemote ==
    \A i \in 1..Len(rs.calls) :
        LET c == rs.calls[i]
            key == IF c.op = "resolve_equity" THEN <<c.args[1]>> \o c.args[2]
                   ELSE <<c.args[1], c.args[2], c.args[3],
                          IF c.args[4] THEN "FUT"
                          ELSE (IF c.args[6] THEN "CE" ELSE "PE") \o c.args[5]>>
        IN /\ (i > 1 /\ rs.calls[i-1].op = c.op /\ rs.calls[i-1].args = c.args)
                => c.remote = <<>>
           /\ key \notin DOMAIN c.before => Len(c.remote) = 1

\* ------------------------------------------------------------------------
\* BasketOrderExecutor called on its own: one execute_basket call on a session
\* whose instrument table and resolver cache hold anything resolution can
\* have left there
\* ------------------------------------------------------------------------
LegKinds == {OrderSpec(TRUE, k, t, <<>>) : k \in {PlainKey, FnoKey}, t \in {"Buy", "Hold"}}
            \cup {OrderSpec(FALSE, PlainKey, "Buy", <<>>)}

BasketArgs == [basket : [name : {"B1"}, enabled : BOOLEAN, orders : ListsUpTo(LegKinds, MaxLegs)],
               hasTable : BOOLEAN,
               table : Dicts({PlainKey, FnoKey}, StoredInstruments),
               cache : Dicts({<<"NSE">> \o PlainKey}, StoredInstruments)]

InitBasket ==
    /\ \E a \in BasketArgs : bk = [pc |-> "call", args |-> a]
    /\ ex = ExIdle
    /\ rs = RsIdle
    /\ MainIdle

BasketCalls(remote) == {i \in 1..Len(remote) : remote[i].call = "place_basket_order"}

\* broker: what the remote place_basket_order call did, "not called" when the
\* call was not issued
CallExecuteBasket ==
    /\ bk.pc = "call"
    /\ \E lookups \in [1..Len(bk.args.basket.orders) -> LookupResults],
          outcome \in PlaceOutcomes :
          \E r \in {execute_basket(bk.args.basket, bk.args.hasTable, bk.args.table,
                                   bk.args.cache, lookups, outcome)} :
             bk' = [pc |-> "done", args |-> bk.args, out |-> r,
                    broker |-> IF BasketCalls(r.remote) = {} THEN "not called"
                               ELSE outcome.type]
    /\ UNCHANGED <<ex, rs, mainVars>>

NextBasket == CallExecuteBasket

SpecBasket == InitBasket /\ [][NextBasket]_vars

\* C6: if a leg of the basket does not resolve to an instrument with a non-empty
\* token, place_basket_order is not called, wherever the leg stands; a
\* place_basket_order call carries every leg of the basket, each with a
\* resolved instrument.
C6_ResolveThenSubmit ==
    bk.pc = "done" =>
        LET orders == bk.args.basket.orders
            remote == bk.out.remote
            unresolved(i) == \/ ~orders[i].has_instrument
                             \/ ~bk.args.hasTable
                             \/ Unresolved(Get(bk.out.table, orders[i].instrument))
        IN /\ (\E i \in 1..Len(orders) : unresolved(i)) => BasketCalls(remote) = {}
           /\ \A c \in BasketCalls(remote) :
                /\ Len(remote[c].basket) = Len(orders)
                /\ \A i \in 1..Len(orders) :
                     /\ remote[c].basket[i].key = orders[i].instrument
                     /\ remote[c].basket[i].instrument \in ValidTokens

\* The last leg of a full basket failed to resolve after the first resolved,
\* and nothing was submitted
C6_Witness ==
    /\ bk.pc = "done"
    /\ bk.args.basket.enabled
    /\ bk.args.hasTable
    /\ Len(bk.args.basket.orders) = MaxLegs
    /\ ~Unresolved(Get(bk.out.table, bk.args.basket.orders[1].instrument))
    /\ Unresolved(Get(bk.out.table, bk.args.basket.orders[MaxLegs].instrument))
    /\ bk.out.result.message = "Order build failed"
    /\ BasketCalls(bk.out.remote) = {}

\* C7: execute_basket on a disabled basket, or on one without legs, returns a
\* failure result ("Basket disabled" for the disabled one), raises nothing and
\* issues no remote call, lookup or place_basket_order.
C7_SkippedBasket ==
    (bk.pc = "done" /\ (~bk.args.basket.enabled \/ bk.args.basket.orders = <<>>)) =>
        /\ bk.out.raised = "none"
        /\ ~bk.out.result.success
        /\ bk.out.remote = <<>>
        /\ ~bk.args.basket.enabled => bk.out.result.message = "Basket disabled"
        /\ bk.out.table = bk.args.table
        /\ bk.out.cache = bk.args.cache

\* A disabled basket with legs that would all resolve was skipped
C7_Witness ==
    /\ bk.pc = "done"
    /\ ~bk.args.basket.enabled
    /\ Len(bk.args.basket.orders) = MaxLegs
    /\ \A i \in 1..MaxLegs :
         /\ bk.args.basket.orders[i].has_instrument
         /\ ~Unresolved(Get(bk.args.table, bk.args.basket.orders[i].instrument))
    /\ bk.args.hasTable
    /\ bk.out.result = [success |-> FALSE, message |-> "Basket disabled"]

\* ------------------------------------------------------------------------
\* The driver: AccountManager.initialize_all, the resolution of the shared
\* table, ThreadedOrchestrator.execute_on_all_accounts and
\* execute_basket_on_all_accounts, called in the order of TradingTestSuite.run
\* ------------------------------------------------------------------------

\* min(5, len(enabled_accounts)) of initialize_all and min(5, len(self.sessions))
\* of _initialize_multi_account
MgrPoolCap == 5
OrchPoolCap == 5

\* acc for acc in accounts_config if acc.get("enabled", True)
EnabledAccounts(config) ==
    LET F[i \in 0..Len(config)] ==
            IF i = 0 THEN <<>>
            ELSE IF config[i].enabled THEN Append(F[i-1], config[i].account_name)
                 ELSE F[i-1]
    IN F[Len(config)]

\* A pool that starts every task as soon as it is submitted
CanStart_unbounded(a) == task[a] = "queued"

\* ThreadPoolExecutor: a worker takes the tasks in submit order, and at most
\* max_workers tasks are running
Running == {a \in DOMAIN task : task[a] = "running"}

CanStart(a) ==
    /\ task[a] = "queued"
    /\ Cardinality(Running) < max_workers
    /\ \A i \in 1..Len(submitted) :
         submitted[i] = a => \A j \in 1..(i-1) : task[submitted[j]] # "queued"

\* An as_completed that yields the future of a task that is still running
Finished_or_running(a) == task[a] \in {"running", "returned", "raised"}

\* An as_completed that never yields the future of a task that raised
Finished_returned(a) == task[a] = "returned"

\* as_completed yields a future when its task has returned or raised
Finished(a) == task[a] \in {"returned", "raised"}

\* logger.debug, logger.info, logger.warning: the level and the text of the
\* record, with the index of the order or basket it was made for
Log(level, text, idx) == [call |-> "log", level |-> level, text |-> text, idx |-> idx]

\* setup_logging(): the root logger is configured with level INFO, and a
\* record below that level is discarded
EnabledLevels == {"info", "warning", "error", "critical"}

Emitted(record) == record.level \in EnabledLevels

\* the remote calls of one call of a component, tagged with the index of the
\* order or basket they were made for
Tagged(remote, idx) == [i \in 1..Len(remote) |-> remote[i] @@ [idx |-> idx]]

InitMain ==
    /\ caller \in {"run", "direct"}
    /\ \E enabled \in [1..NumAccounts -> BOOLEAN] :
         accounts_config = [i \in 1..NumAccounts |->
                              [account_name |-> AccountNames[i], enabled |-> enabled[i]]]
    /\ phase = "start"
    /\ abort = ""
    /\ configured_max = 0
    /\ max_workers = 0
    /\ submitted = <<>>
    /\ task = [a \in Accounts |-> "none"]
    /\ exc = [a \in Accounts |-> ""]
    /\ collected = {}
    /\ sessions = <<>>
    /\ hasTable = {}
    /\ instruments = EmptyDict
    /\ cache = [a \in Accounts |-> EmptyDict]
    /\ order_config = <<>>
    /\ baskets_config = <<>>
    /\ pos = [a \in Accounts |-> 0]
    /\ step = [a \in Accounts |-> ""]
    /\ account_results = [a \in Accounts |-> <<>>]
    /\ results = EmptyDict
    /\ events = [a \in Accounts |-> <<>>]

Init == InitMain /\ ex = ExIdle /\ rs = RsIdle /\ bk = BkIdle

\* The exception leaves the driver: nothing runs after it
Abort(reason) ==
    /\ phase' = "aborted"
    /\ abort' = reason

\* AccountManager.initialize_all up to the submission of the tasks: the pool
\* is created with min(5, len(enabled_accounts)) workers, which raises
\* ValueError for 0, and one task per enabled account is submitted
initialize_all_submit(enabled_accounts) ==
    IF Min(MgrPoolCap, Len(enabled_accounts)) <= 0
    THEN /\ Abort("initialize_all: ValueError: max_workers must be greater than 0")
         /\ UNCHANGED <<max_workers, submitted, task>>
    ELSE /\ phase' = "mgr"
         /\ max_workers' = Min(MgrPoolCap, Len(enabled_accounts))
         /\ submitted' = enabled_accounts
         /\ task' = [a \in DOMAIN task |->
                        IF a \in Range(enabled_accounts) THEN "queued" ELSE "none"]
         /\ UNCHANGED abort

\* TradingTestSuite.initialize and _initialize_multi_account up to
\* initialize_all: load_master_config raises on a file it cannot parse, and no
\* enabled account is a configuration error
InitializeMultiAccount ==
    /\ caller = "run"
    /\ phase = "start"
    /\ \E parsed \in BOOLEAN :
         IF ~parsed
         THEN /\ Abort("initialize: load_master_config raised")
              /\ UNCHANGED <<max_workers, submitted, task>>
         ELSE IF EnabledAccounts(accounts_config) = <<>>
         THEN /\ Abort("_initialize_multi_account: ValueError: No enabled accounts found")
              /\ UNCHANGED <<max_workers, submitted, task>>
         ELSE initialize_all_submit(EnabledAccounts(accounts_config))
    /\ UNCHANGED <<unitVars, caller, accounts_config, configured_max, exc, collected, sessions, hasTable,
                   instruments, cache, order_config, baskets_config, pos, step,
                   account_results, results, events>>

\* AccountManager.initialize_all called on the account descriptors as they are
InitializeAll ==
    /\ caller = "direct"
    /\ phase = "start"
    /\ initialize_all_submit(EnabledAccounts(accounts_config))
    /\ UNCHANGED <<unitVars, caller, accounts_config, configured_max, exc, collected, sessions, hasTable,
                   instruments, cache, order_config, baskets_config, pos, step,
                   account_results, results, events>>

\* a worker of the pool of initialize_all takes the next task
InitTaskStart(a) ==
    /\ phase = "mgr"
    /\ CanStart(a)
    /\ task' = [task EXCEPT ![a] = "running"]
    /\ UNCHANGED <<unitVars, caller, accounts_config, phase, abort, configured_max, max_workers, submitted,
                   exc, collected, sessions, hasTable, instruments, cache, order_config,
                   baskets_config, pos, step, account_results, results, events>>

\* AccountManager._initialize_single: login, contract download and construction
\* of the components; the login may raise (download_contracts does not: the
\* patched get_contract_master catches everything)
_initialize_single(a) ==
    /\ phase = "mgr"
    /\ task[a] = "running"
    /\ \E login_ok \in BOOLEAN :
         IF login_ok
         THEN /\ task' = [task EXCEPT ![a] = "returned"]
              /\ events' = [events EXCEPT ![a] =
                               @ \o <<[call |-> "login"], [call |-> "download_contracts"]>>]
              /\ UNCHANGED exc
         ELSE /\ task' = [task EXCEPT ![a] = "raised"]
              /\ exc' = [exc EXCEPT ![a] = "login failed"]
              /\ events' = [events EXCEPT ![a] = Append(@, [call |-> "login"])]
    /\ cache' = [cache EXCEPT ![a] = EmptyDict]
    /\ UNCHANGED <<unitVars, caller, accounts_config, phase, abort, configured_max, max_workers, submitted,
                   collected, sessions, hasTable, instruments, order_config,
                   baskets_config, pos, step, account_results, results>>

\* the loop over as_completed of initialize_all: a session is stored, a failure
\* is logged
InitCollect(a) ==
    /\ phase = "mgr"
    /\ Finished(a)
    /\ a \notin collected
    /\ collected' = collected \cup {a}
    /\ sessions' = IF task[a] = "returned" THEN Append(sessions, a) ELSE sessions
    /\ UNCHANGED <<unitVars, caller, accounts_config, phase, abort, configured_max, max_workers, submitted,
                   task, exc, hasTable, instruments, cache, order_config, baskets_config,
                   pos, step, account_results, results, events>>

\* return self.sessions
InitializeAllReturn ==
    /\ phase = "mgr"
    /\ collected = Range(submitted)
    /\ phase' = "mgr_ret"
    /\ UNCHANGED <<unitVars, caller, accounts_config, abort, configured_max, max_workers, submitted, task,
                   exc, collected, sessions, hasTable, instruments, cache, order_config,
                   baskets_config, pos, step, account_results, results, events>>

\* ThreadedOrchestrator(max_workers=...): TradingTestSuite passes
\* min(5, len(self.sessions)); another caller passes a positive number (the
\* default is 5)
CreateOrchestrator ==
    /\ phase = "mgr_ret"
    /\ phase' = "ready"
    /\ IF caller = "run"
       THEN configured_max' = Min(OrchPoolCap, Len(sessions))
       ELSE \E w \in 1..NumAccounts : configured_max' = w
    /\ UNCHANGED <<unitVars, caller, accounts_config, abort, max_workers, submitted, task,
                   exc, collected, sessions, hasTable, instruments, cache, order_config,
                   baskets_config, pos, step, account_results, results, events>>

\* The instruments section of the configuration: empty, or the keys it
\* configures (an NSE equity and an NFO option)
InstrumentConfigs == [empty : BOOLEAN, keys : {{}, {PlainKey, FnoKey}}]

\* The resolution pass of load_and_resolve_instruments on the resolver of the
\* first session (_resolve_instrument turns an exception into None): the table
\* it builds, what it leaves in that resolver's cache, its remote calls
resolve_configured(keys, c, r1, r2) ==
    LET q1 == IF PlainKey \in keys
              THEN resolve_equity(c, "NSE", PlainKey, r1)
              ELSE [ret |-> NoneVal, cache |-> c, remote |-> <<>>]
        t1 == IF PlainKey \in keys THEN Put(EmptyDict, PlainKey, q1.ret) ELSE EmptyDict
        q2 == IF FnoKey \in keys
              THEN resolve_fno(q1.cache, "NFO", "NIFTY", "2025-12-30", FALSE, "26000",
                               TRUE, r2)
              ELSE [ret |-> NoneVal, cache |-> q1.cache, remote |-> <<>>]
        t2 == IF FnoKey \in keys THEN Put(t1, FnoKey, q2.ret) ELSE t1
    IN [table |-> t2, cache |-> q2.cache, remote |-> q1.remote \o q2.remote]

\* What a remote lookup is taken to do in a run of the driver: raise, or return
\* an instrument object with an empty or a valid token
DriverLookupResults ==
    {[shape |-> "raise", token |-> Missing]}
    \cup {[shape |-> "obj", token |-> t] : t \in {EmptyTok} \cup ValidTokens}

\* TradingTestSuite.load_and_resolve_instruments: an empty instrument
\* configuration, and a key to resolve without any session, end the run; the
\* table is distributed to the resolver of every session.  Another caller
\* distributes it to the sessions it chooses.
LoadAndResolveInstruments ==
    /\ phase = "ready"
    /\ \E config \in InstrumentConfigs, r1 \in DriverLookupResults,
          r2 \in DriverLookupResults,
          D \in SUBSET Range(sessions) :
         /\ caller = "run" => D = Range(sessions)
         /\ caller = "direct" => ~config.empty
         /\ config.empty => config.keys = {}
         /\ IF config.empty
            THEN /\ Abort("load_and_resolve_instruments: ValueError: Instrument config is empty")
                 /\ UNCHANGED <<hasTable, instruments, cache, events>>
            ELSE IF sessions = <<>>
            THEN IF config.keys # {}
                 THEN /\ Abort("_resolve_instrument: RuntimeError: No sessions available")
                      /\ UNCHANGED <<hasTable, instruments, cache, events>>
                 ELSE /\ phase' = "loaded"
                      /\ instruments' = EmptyDict
                      /\ UNCHANGED <<abort, hasTable, cache, events>>
            ELSE LET first == sessions[1]
                     r == resolve_configured(config.keys, cache[first], r1, r2)
                 IN /\ phase' = "loaded"
                    /\ instruments' = r.table
                    /\ cache' = [cache EXCEPT ![first] = r.cache]
                    /\ events' = [events EXCEPT ![first] = @ \o r.remote]
                    /\ hasTable' = D
                    /\ UNCHANGED abort
    /\ UNCHANGED <<unitVars, caller, accounts_config, configured_max, max_workers, submitted,
                   task, exc, collected, sessions, order_config, baskets_config, pos, step,
                   account_results, results>>

\* What alice.place_order is taken to do in a run of the orchestrator: raise,
\* or acknowledge the order
OkResponse == [type |-> "dict", stat |-> "Ok", NOrdNo |-> "N1", elems |-> <<>>]

DriverPlaceOutcomes == {RaiseOutcome, OkResponse}

\* The order lists of the configuration: an equity order with the tag "t1", a
\* derivative order with no tag (order_data.get("order_tag", "") is ""), a
\* disabled order, an order without the key "instrument"
OrderKinds == {OrderSpec(TRUE, PlainKey, "Buy", <<"t1">>),
               OrderSpec(TRUE, FnoKey, "Buy", <<"">>),
               [OrderSpec(TRUE, PlainKey, "Buy", <<"t1">>) EXCEPT !.enabled = FALSE],
               OrderSpec(FALSE, PlainKey, "Buy", <<"t1">>)}

OrderLists == ListsUpTo(OrderKinds, MaxOrders)

\* [o for o in orders_config if o.get("enabled", True)]
EnabledOnly(list) ==
    LET F[i \in 0..Len(list)] ==
            IF i = 0 THEN <<>>
            ELSE IF list[i].enabled THEN Append(F[i-1], list[i]) ELSE F[i-1]
    IN F[Len(list)]

\* A submission loop over every enabled account of the configuration
future_to_account_all_enabled == EnabledAccounts(accounts_config)

\* for account_name, session in sessions.items(): the accounts a task is
\* submitted for, in submit order
future_to_account == sessions

\* No orchestrator method is called: there is no pool and no result mapping
no_orchestrator_call(next_phase) ==
    /\ phase' = next_phase
    /\ max_workers' = 0
    /\ submitted' = <<>>
    /\ collected' = {}
    /\ task' = [a \in Accounts |-> "none"]
    /\ exc' = [a \in Accounts |-> ""]
    /\ pos' = [a \in Accounts |-> 0]
    /\ step' = [a \in Accounts |-> ""]
    /\ account_results' = [a \in Accounts |-> <<>>]
    /\ results' = EmptyDict
    /\ events' = [a \in Accounts |-> <<>>]
    /\ UNCHANGED abort

\* The head of execute_on_all_accounts and of execute_basket_on_all_accounts:
\* results = {}, the pool is created with self.max_workers workers (ValueError
\* for 0) and one task per session is submitted, in the order of the mapping
orchestrator_submit(next_phase, site) ==
    IF configured_max <= 0
    THEN /\ Abort(site)
         /\ UNCHANGED <<max_workers, submitted, collected, task, exc, pos, step,
                        account_results, results, events>>
    ELSE /\ phase' = next_phase
         /\ max_workers' = configured_max
         /\ submitted' = future_to_account
         /\ collected' = {}
         /\ task' = [a \in Accounts |->
                        IF a \in Range(future_to_account) THEN "queued" ELSE "none"]
         /\ exc' = [a \in Accounts |-> ""]
         /\ pos' = [a \in Accounts |-> IF a \in Range(future_to_account) THEN 1 ELSE 0]
         /\ step' = [a \in Accounts |->
                        IF a \in Range(future_to_account) THEN "lookup" ELSE ""]
         /\ account_results' = [a \in Accounts |-> <<>>]
         /\ results' = EmptyDict
         /\ events' = [a \in Accounts |-> <<>>]
         /\ UNCHANGED abort

\* TradingTestSuite.execute_test_orders: the enabled orders go to
\* execute_on_all_accounts, and nothing is called when there is none.
\* Another caller hands the order list over as it is.
ExecuteTestOrders ==
    /\ phase = "loaded"
    /\ \E orders \in OrderLists :
         LET handed == IF caller = "run" THEN EnabledOnly(orders) ELSE orders
         IN /\ order_config' = handed
            /\ IF caller = "run" /\ handed = <<>>
               THEN no_orchestrator_call("orders_ret")
               ELSE orchestrator_submit("orders",
                        "execute_on_all_accounts: ValueError: max_workers must be greater than 0")
    /\ UNCHANGED <<unitVars, caller, accounts_config, configured_max, sessions,
                   hasTable, instruments, cache, baskets_config>>

\* a worker of the pool of execute_on_all_accounts takes the next task
OrderTaskStart(a) ==
    /\ phase = "orders"
    /\ CanStart(a)
    /\ task' = [task EXCEPT ![a] = "running"]
    /\ UNCHANGED <<unitVars, caller, accounts_config, phase, abort, configured_max,
                   max_workers, submitted, exc, collected, sessions, hasTable, instruments,
                   cache, order_config, baskets_config, pos, step, account_results,
                   results, events>>

\* An except clause that catches nothing
except_nothing(raised) == FALSE

\* except Exception as e: every exception the try block raises is caught
except_Exception(raised) == raised # "none"

\* the remote order calls of one call of a component, with what the broker did
with_outcome(remote, outcome) ==
    [k \in 1..Len(remote) |->
        IF remote[k].call \in {"place_order", "place_basket_order"}
        THEN remote[k] @@ [outcome |-> outcome.type]
        ELSE remote[k]]

\* A result list that takes the newest entry at its head
record_entry_at_head(entries, entry) == <<entry>> \o entries

\* account_results["individual_orders"].append(...)
record_entry(entries, entry) == Append(entries, entry)

\* A tag passed on as it is configured
order_tag_unprefixed(account_name, order_data) == order_data.order_tag

\* order_tag=f"{account_name}_{order_data.get('order_tag', '')}"
account_order_tag(account_name, order_data) == <<account_name>> \o order_data.order_tag

\* A try block that places the order a second time when the remote call raised
place_and_record_retrying(a, order_data, instrument, outcome) ==
    LET r == place_order(instrument, order_data.transaction_type, order_data.order_type,
                         order_data.product_type, LegOptional(order_data),
                         <<a>> \o order_data.order_tag, outcome)
        calls == IF outcome.type = "raise" THEN r.remote \o r.remote ELSE r.remote
    IN [entry |-> IF r.raised = "none" THEN r.result
                  ELSE [success |-> FALSE, error |-> r.message],
        propagates |-> FALSE,
        remote |-> with_outcome(calls, outcome)]

\* the try block of _execute_on_single_account: place_order with the tag
\* prefixed by the account name; the result, or the failure entry of the except
\* clause, is appended to individual_orders
place_and_record(a, order_data, instrument, outcome) ==
    LET r == place_order(instrument, order_data.transaction_type, order_data.order_type,
                         order_data.product_type, LegOptional(order_data),
                         account_order_tag(a, order_data), outcome)
    IN [entry |-> IF r.raised = "none" THEN r.result
                  ELSE [success |-> FALSE, error |-> r.message],
        propagates |-> r.raised # "none" /\ ~except_Exception(r.raised),
        remote |-> with_outcome(r.remote, outcome)]

\* _execute_on_single_account, one pass of the loop up to the remote lookup:
\* a disabled order is skipped; the key is read (KeyError without it) and
\* looked up in the shared table; a resolved instrument is placed; an
\* unresolved key with an underscore is skipped, one without goes to dynamic
\* resolution
OrderLookupWith(a, place_outcomes) ==
    /\ phase = "orders"
    /\ task[a] = "running"
    /\ step[a] = "lookup"
    /\ pos[a] <= Len(order_config)
    /\ LET i == pos[a]
           order_data == order_config[i]
           instrument_key == order_data.instrument
           instrument == Get(instruments, instrument_key)
       IN IF ~order_data.enabled
          THEN /\ events' = [events EXCEPT ![a] = Append(@, Log("debug", "Skipping disabled order", i))]
               /\ pos' = [pos EXCEPT ![a] = i + 1]
               /\ UNCHANGED <<task, exc, step, account_results>>
          ELSE IF ~order_data.has_instrument
          THEN /\ task' = [task EXCEPT ![a] = "raised"]
               /\ exc' = [exc EXCEPT ![a] = "KeyError: 'instrument'"]
               /\ UNCHANGED <<events, pos, step, account_results>>
          ELSE IF Unresolved(instrument)
          THEN IF ~HasUnderscore(instrument_key)
               THEN /\ events' = [events EXCEPT ![a] =
                                     Append(@, Log("info", "Dynamic resolution attempt", i))]
                    /\ step' = [step EXCEPT ![a] = "resolve"]
                    /\ UNCHANGED <<task, exc, pos, account_results>>
               ELSE /\ events' = [events EXCEPT ![a] =
                                     Append(@, Log("warning", "Invalid F&O instrument, skipping", i))]
                    /\ pos' = [pos EXCEPT ![a] = i + 1]
                    /\ UNCHANGED <<task, exc, step, account_results>>
          ELSE \E outcome \in place_outcomes :
                 \E p \in {place_and_record(a, order_data, instrument, outcome)} :
                    /\ events' = [events EXCEPT ![a] = @ \o Tagged(p.remote, i)]
                    /\ IF p.propagates
                       THEN /\ task' = [task EXCEPT ![a] = "raised"]
                            /\ exc' = [exc EXCEPT ![a] = p.entry.error]
                            /\ UNCHANGED <<pos, step, account_results>>
                       ELSE /\ account_results' = [account_results EXCEPT ![a] =
                                                        record_entry(@, p.entry)]
                            /\ pos' = [pos EXCEPT ![a] = i + 1]
                            /\ UNCHANGED <<task, exc, step>>
    /\ UNCHANGED <<unitVars, caller, accounts_config, phase, abort, configured_max,
                   max_workers, submitted, collected, sessions, hasTable, instruments,
                   cache, order_config, baskets_config, results>>

OrderLookup(a) == OrderLookupWith(a, DriverPlaceOutcomes)

\* A task that keeps the instrument it resolved to itself
keep_resolved_local(table, instrument_key, instrument) == table

\* A store that rebuilds the shared table around the resolved key
share_resolved_alone(table, instrument_key, instrument) ==
    Put(EmptyDict, instrument_key, instrument)

\* instruments[instrument_key] = instrument, on the table every task was handed
share_resolved(table, instrument_key, instrument) == Put(table, instrument_key, instrument)

\* _execute_on_single_account, the dynamic resolution of a plain key:
\* resolve_equity("NSE", key) on the session's resolver; a resolved instrument
\* is written to the shared table and to session.resolver.instruments
\* (AttributeError when the resolver has no such attribute), then placed; an
\* unresolved one skips the order
OrderResolveWith(a, lookup_results, place_outcomes) ==
    /\ phase = "orders"
    /\ task[a] = "running"
    /\ step[a] = "resolve"
    /\ LET i == pos[a]
           order_data == order_config[i]
           instrument_key == order_data.instrument
       IN \E result \in lookup_results, outcome \in place_outcomes :
            \E r \in {resolve_equity(cache[a], "NSE", instrument_key, result)} :
            \E p \in {place_and_record(a, order_data, r.ret, outcome)} :
               /\ cache' = [cache EXCEPT ![a] = r.cache]
               /\ IF ~resolved_with_token(r.ret)
                  THEN /\ events' = [events EXCEPT ![a] =
                              (@ \o Tagged(r.remote, i))
                                 \o <<Log("warning", "Dynamic resolution failed, skipping", i)>>]
                       /\ pos' = [pos EXCEPT ![a] = i + 1]
                       /\ step' = [step EXCEPT ![a] = "lookup"]
                       /\ UNCHANGED <<task, exc, instruments, account_results>>
                  ELSE /\ instruments' = share_resolved(instruments, instrument_key, r.ret)
                       /\ IF a \notin hasTable
                          THEN /\ task' = [task EXCEPT ![a] = "raised"]
                               /\ exc' = [exc EXCEPT ![a] = "AttributeError: instruments"]
                               /\ events' = [events EXCEPT ![a] = @ \o Tagged(r.remote, i)]
                               /\ UNCHANGED <<pos, step, account_results>>
                          ELSE /\ events' = [events EXCEPT ![a] =
                                      ((@ \o Tagged(r.remote, i))
                                          \o <<Log("info", "Dynamically resolved", i)>>)
                                          \o Tagged(p.remote, i)]
                               /\ IF p.propagates
                                  THEN /\ task' = [task EXCEPT ![a] = "raised"]
                                       /\ exc' = [exc EXCEPT ![a] = p.entry.error]
                                       /\ UNCHANGED <<pos, step, account_results>>
                                  ELSE /\ account_results' =
                                              [account_results EXCEPT ![a] =
                                                  record_entry(@, p.entry)]
                                       /\ pos' = [pos EXCEPT ![a] = i + 1]
                                       /\ step' = [step EXCEPT ![a] = "lookup"]
                                       /\ UNCHANGED <<task, exc>>
    /\ UNCHANGED <<unitVars, caller, accounts_config, phase, abort, configured_max,
                   max_workers, submitted, collected, sessions, hasTable, order_config,
                   baskets_config, results>>

OrderResolve(a) == OrderResolveWith(a, DriverLookupResults, DriverPlaceOutcomes)

\* return account_results
OrderTaskReturn(a) ==
    /\ phase = "orders"
    /\ task[a] = "running"
    /\ step[a] = "lookup"
    /\ pos[a] > Len(order_config)
    /\ task' = [task EXCEPT ![a] = "returned"]
    /\ UNCHANGED <<unitVars, caller, accounts_config, phase, abort, configured_max,
                   max_workers, submitted, exc, collected, sessions, hasTable, instruments,
                   cache, order_config, baskets_config, pos, step, account_results,
                   results, events>>

\* A collection that stores the bundle of the task whatever became of it
collected_entry_as_bundle(state, bundle, error) == bundle

\* the body of the loop over as_completed: the bundle future.result() returns,
\* or the failure record of the except clause
collected_entry(state, bundle, error) ==
    IF state = "returned" THEN bundle ELSE [success |-> FALSE, error |-> error]

\* A collection that leaves the account of a failed task out of the mapping
record_result_dropping_failures(res, a, state, bundle, error) ==
    IF state = "returned" THEN Put(res, a, bundle) ELSE res

\* results[account_name] = ..., in the try and in the except clause
record_result(res, a, state, bundle, error) ==
    Put(res, a, collected_entry(state, bundle, error))

\* the loop over as_completed of execute_on_all_accounts
OrderCollect(a) ==
    /\ phase = "orders"
    /\ Finished(a)
    /\ a \notin collected
    /\ collected' = collected \cup {a}
    /\ results' = record_result(results, a, task[a],
                                [individual_orders |-> account_results[a],
                                 basket_orders |-> <<>>],
                                exc[a])
    /\ UNCHANGED <<unitVars, caller, accounts_config, phase, abort, configured_max,
                   max_workers, submitted, task, exc, sessions, hasTable,
                   instruments, cache, order_config, baskets_config, pos, step,
                   account_results, events>>

\* return results
ExecuteOnAllReturn ==
    /\ phase = "orders"
    /\ collected = Range(submitted)
    /\ phase' = "orders_ret"
    /\ UNCHANGED <<unitVars, caller, accounts_config, abort, configured_max, max_workers,
                   submitted, task, exc, collected, sessions, hasTable, instruments, cache,
                   order_config, baskets_config, pos, step, account_results, results,
                   events>>

NextOrders ==
    \/ ExecuteTestOrders
    \/ \E a \in Accounts : OrderTaskStart(a)
    \/ \E a \in Accounts : OrderLookup(a)
    \/ \E a \in Accounts : OrderResolve(a)
    \/ \E a \in Accounts : OrderTaskReturn(a)
    \/ \E a \in Accounts : OrderCollect(a)
    \/ ExecuteOnAllReturn

\* What alice.place_basket_order is taken to do in a run of the orchestrator
DriverBasketOutcomes == {RaiseOutcome, OkResponse}

DriverLegKinds == {OrderSpec(TRUE, PlainKey, "Buy", <<"t1">>),
                   OrderSpec(TRUE, FnoKey, "Buy", <<"t1">>)}

\* The entries of a basket list: basket dicts, and an entry that is no dict
BasketKinds == [is_dict : {TRUE}, name : {"B1"}, enabled : BOOLEAN,
                orders : ListsUpTo(DriverLegKinds, MaxLegs)]
               \cup {[is_dict |-> FALSE, name |-> "", enabled |-> TRUE, orders |-> <<>>]}

BasketLists == ListsUpTo(BasketKinds, MaxBaskets)

\* TradingTestSuite.execute_basket_orders: the enabled baskets go to
\* execute_basket_on_all_accounts, and nothing is called when there is none.
\* Another caller hands the basket list over as it is.
execute_basket_orders(basket_lists) ==
    /\ phase = "orders_ret"
    /\ \E baskets \in basket_lists :
         LET handed == IF caller = "run" THEN EnabledOnly(baskets) ELSE baskets
         IN /\ caller = "run" => \A i \in 1..Len(baskets) : baskets[i].is_dict
            /\ baskets_config' = handed
            /\ IF caller = "run" /\ handed = <<>>
               THEN no_orchestrator_call("done")
               ELSE orchestrator_submit("baskets",
                        "execute_basket_on_all_accounts: ValueError: max_workers must be greater than 0")
    /\ order_config' = <<>>
    /\ UNCHANGED <<unitVars, caller, accounts_config, configured_max, sessions,
                   hasTable, instruments, cache>>

ExecuteBasketOrders == execute_basket_orders(BasketLists)

\* a worker of the pool of execute_basket_on_all_accounts takes the next task
BasketTaskStart(a) ==
    /\ phase = "baskets"
    /\ CanStart(a)
    /\ task' = [task EXCEPT ![a] = "running"]
    /\ UNCHANGED <<unitVars, caller, accounts_config, phase, abort, configured_max,
                   max_workers, submitted, exc, collected, sessions, hasTable, instruments,
                   cache, order_config, baskets_config, pos, step, account_results,
                   results, events>>

\* _tag_basket_orders: basket.copy() copies the top level only, so the
\* assignment to order["order_tag"] writes into the leg dicts of the basket
\* list every task was handed
_tag_basket_orders(basket, account_name) ==
    [basket EXCEPT !.orders =
        [j \in 1..Len(basket.orders) |->
            [basket.orders[j] EXCEPT !.order_tag = <<account_name>> \o @]]]

\* _execute_baskets_on_single_account, the head of the loop: basket.get
\* (AttributeError on an entry that is no dict, outside the try), the skip of
\* a disabled basket, and the tagging
BasketTag(a) ==
    /\ phase = "baskets"
    /\ task[a] = "running"
    /\ step[a] = "lookup"
    /\ pos[a] <= Len(baskets_config)
    /\ LET i == pos[a]
           basket == baskets_config[i]
       IN IF ~basket.is_dict
          THEN /\ task' = [task EXCEPT ![a] = "raised"]
               /\ exc' = [exc EXCEPT ![a] = "AttributeError: get"]
               /\ UNCHANGED <<events, pos, step, baskets_config>>
          ELSE IF ~basket.enabled
          THEN /\ events' = [events EXCEPT ![a] = Append(@, Log("info", "Skipping disabled basket", i))]
               /\ pos' = [pos EXCEPT ![a] = i + 1]
               /\ UNCHANGED <<task, exc, step, baskets_config>>
          ELSE /\ baskets_config' = [baskets_config EXCEPT ![i] = _tag_basket_orders(@, a)]
               /\ step' = [step EXCEPT ![a] = "exec"]
               /\ UNCHANGED <<task, exc, pos, events>>
    /\ UNCHANGED <<unitVars, caller, accounts_config, phase, abort, configured_max,
                   max_workers, submitted, collected, sessions, hasTable, instruments,
                   cache, order_config, account_results, results>>

\* A basket result list that takes the newest entry at its head
record_basket_entry_at_head(entries, entry) == <<entry>> \o entries

\* results.append(...) of _execute_baskets_on_single_account
record_basket_entry(entries, entry) == Append(entries, entry)

\* _execute_baskets_on_single_account, the rest of the try block:
\* session.basket_executor.execute_basket(basket_copy); its result, or the
\* failure entry of the except clause, is appended to the local list
BasketExecuteWith(a, lookup_results, basket_outcomes) ==
    /\ phase = "baskets"
    /\ task[a] = "running"
    /\ step[a] = "exec"
    /\ LET i == pos[a]
           basket_copy == baskets_config[i]
       IN \E lookups \in [1..Len(basket_copy.orders) -> lookup_results],
             outcome \in basket_outcomes :
            \E r \in {execute_basket(basket_copy, a \in hasTable, instruments, cache[a],
                                     lookups, outcome)} :
               /\ instruments' = r.table
               /\ cache' = [cache EXCEPT ![a] = r.cache]
               /\ events' = [events EXCEPT ![a] =
                                @ \o Tagged(with_outcome(r.remote, outcome), i)]
               /\ IF r.raised # "none" /\ ~except_Exception(r.raised)
                  THEN /\ task' = [task EXCEPT ![a] = "raised"]
                       /\ exc' = [exc EXCEPT ![a] = r.result.message]
                       /\ UNCHANGED <<pos, step, account_results>>
                  ELSE /\ account_results' =
                              [account_results EXCEPT ![a] =
                                  record_basket_entry(@,
                                      IF r.raised = "none" THEN r.result
                                      ELSE [success |-> FALSE,
                                            error |-> r.result.message])]
                       /\ pos' = [pos EXCEPT ![a] = i + 1]
                       /\ step' = [step EXCEPT ![a] = "lookup"]
                       /\ UNCHANGED <<task, exc>>
    /\ UNCHANGED <<unitVars, caller, accounts_config, phase, abort, configured_max,
                   max_workers, submitted, collected, sessions, hasTable,
                   order_config, baskets_config, results>>

BasketExecute(a) == BasketExecuteWith(a, DriverLookupResults, DriverBasketOutcomes)

\* return {"basket_orders": results}
BasketTaskReturn(a) ==
    /\ phase = "baskets"
    /\ task[a] = "running"
    /\ step[a] = "lookup"
    /\ pos[a] > Len(baskets_config)
    /\ task' = [task EXCEPT ![a] = "returned"]
    /\ UNCHANGED <<unitVars, caller, accounts_config, phase, abort, configured_max,
                   max_workers, submitted, exc, collected, sessions, hasTable, instruments,
                   cache, order_config, baskets_config, pos, step, account_results,
                   results, events>>

\* the loop over as_completed of execute_basket_on_all_accounts
BasketCollect(a) ==
    /\ phase = "baskets"
    /\ Finished(a)
    /\ a \notin collected
    /\ collected' = collected \cup {a}
    /\ results' = record_result(results, a, task[a],
                                [basket_orders |-> account_results[a]], exc[a])
    /\ UNCHANGED <<unitVars, caller, accounts_config, phase, abort, configured_max,
                   max_workers, submitted, task, exc, sessions, hasTable,
                   instruments, cache, order_config, baskets_config, pos, step,
                   account_results, events>>

\* return results
ExecuteBasketReturn ==
    /\ phase = "baskets"
    /\ collected = Range(submitted)
    /\ phase' = "done"
    /\ UNCHANGED <<unitVars, caller, accounts_config, abort, configured_max, max_workers,
                   submitted, task, exc, collected, sessions, hasTable, instruments, cache,
                   order_config, baskets_config, pos, step, account_results, results,
                   events>>

NextBaskets ==
    \/ ExecuteBasketOrders
    \/ \E a \in Accounts : BasketTaskStart(a)
    \/ \E a \in Accounts : BasketTag(a)
    \/ \E a \in Accounts : BasketExecute(a)
    \/ \E a \in Accounts : BasketTaskReturn(a)
    \/ \E a \in Accounts : BasketCollect(a)
    \/ ExecuteBasketReturn

NextMgr ==
    \/ InitializeMultiAccount
    \/ InitializeAll
    \/ \E a \in Accounts : InitTaskStart(a)
    \/ \E a \in Accounts : _initialize_single(a)
    \/ \E a \in Accounts : InitCollect(a)
    \/ InitializeAllReturn

Next ==
    \/ NextMgr
    \/ CreateOrchestrator
    \/ LoadAndResolveInstruments
    \/ NextOrders
    \/ NextBaskets

Spec == Init /\ [][Next]_vars

\* ------------------------------------------------------------------------
\* Properties of the driver
\* ------------------------------------------------------------------------
\* an orchestrator method has returned its mapping
OrchestratorReturned == phase \in {"orders_ret", "done"}

\* the bundle the task of account a returns
TaskBundle(a) ==
    IF phase = "orders_ret"
    THEN [individual_orders |-> account_results[a], basket_orders |-> <<>>]
    ELSE [basket_orders |-> account_results[a]]

FailedTasks == {a \in Range(submitted) : task[a] = "raised"}

\* C1: when execute_on_all_accounts or execute_basket_on_all_accounts returns,
\* the entry of an account whose task raised is {success: false, error: message},
\* and the task of every other account has run to completion and has its own
\* bundle in the mapping.
C1_FaultIsolation ==
    OrchestratorReturned =>
        \A a \in Range(submitted) :
            /\ task[a] \in {"returned", "raised"}
            /\ a \in DOMAIN results
            /\ task[a] = "raised" => results[a] = [success |-> FALSE, error |-> exc[a]]
            /\ task[a] = "returned" => results[a] = TaskBundle(a)

\* execute_on_all_accounts has returned; the task of one account raised, and a
\* sibling placed an order and has it in its bundle
C1_Witness ==
    /\ phase = "orders_ret"
    /\ \E a, b \in Range(submitted) :
         /\ task[a] = "raised"
         /\ task[b] = "returned"
         /\ results[b].individual_orders # <<>>
         /\ results[b].individual_orders[1].success

\* C2 as stated: the key set of the returned mapping is the set of sessions
\* minus the accounts whose task failed (at most N-1 of N), and the report of
\* every non-failing account is present.
C2_KeysAreNonFailing ==
    (OrchestratorReturned /\ Cardinality(FailedTasks) <= Len(submitted) - 1) =>
        /\ DOMAIN results = Range(submitted) \ FailedTasks
        /\ \A a \in Range(submitted) \ FailedTasks : results[a] = TaskBundle(a)

\* C2, amended: the key set of the returned mapping is the whole set of
\* sessions, whichever tasks failed; an account whose task failed maps to a
\* failure record and the report of every non-failing account is present.
C2_KeysAreAllSessions ==
    OrchestratorReturned =>
        /\ DOMAIN results = Range(submitted)
        /\ \A a \in FailedTasks : ~results[a].success /\ results[a].error = exc[a]
        /\ \A a \in Range(submitted) \ FailedTasks : results[a] = TaskBundle(a)

\* a mapping was returned with the key of an account whose task failed
C2_Witness ==
    /\ OrchestratorReturned
    /\ FailedTasks # {}
    /\ Cardinality(FailedTasks) <= Len(submitted) - 1
    /\ FailedTasks \subseteq DOMAIN results

\* C3: initialize_all never raises, and the key set of the mapping it returns
\* is the set of the enabled accounts whose initialization did not raise.
C3_InitializeAllIsolated ==
    /\ abort # "initialize_all: ValueError: max_workers must be greater than 0"
    /\ phase = "mgr_ret" =>
          Range(sessions) = {a \in Range(EnabledAccounts(accounts_config)) :
                               task[a] = "returned"}

\* C4: after an initialize_all in which the initialization of an account
\* raised, execute_on_all_accounts submits a task and issues remote calls only
\* for the accounts of the sessions mapping: an account outside it has no task,
\* no remote call and no entry.
C4_DispatchOnlyToSessions ==
    phase \in {"orders", "orders_ret"} =>
        \A b \in Accounts \ Range(sessions) :
            /\ task[b] = "none"
            /\ \A i \in 1..Len(submitted) : submitted[i] # b
            /\ events[b] = <<>>
            /\ b \notin DOMAIN results

\* the initialization of an enabled account raised, and a later
\* execute_on_all_accounts has placed an order on another account
C4_Witness ==
    /\ phase = "orders_ret"
    /\ \E b \in Range(EnabledAccounts(accounts_config)) \ Range(sessions) :
         \E a \in Range(sessions) :
            \E k \in 1..Len(events[a]) : events[a][k].call = "place_order"

\* the orders of the list whose key has an underscore and is absent from the
\* table or unresolved in it (the table entry of such a key never changes
\* after the table is loaded)
UnresolvedDerivativeOrders ==
    {i \in 1..Len(order_config) :
        /\ order_config[i].enabled
        /\ order_config[i].has_instrument
        /\ Len(order_config[i].instrument) > 1
        /\ (\/ order_config[i].instrument \notin DOMAIN instruments
            \/ instruments[order_config[i].instrument] \in {NoneVal, EmptyTok})}

EventsFor(a, i) == {k \in 1..Len(events[a]) : events[a][k].idx = i}

\* C10: in an account task of execute_on_all_accounts, an order whose key has
\* an underscore and is not resolved in the table triggers no remote lookup and
\* no place_order call; it is skipped with a logged reason, adds nothing to the
\* results, and the task goes on with the next order.
C10_DerivativeSkipped ==
    phase \in {"orders", "orders_ret"} =>
        \A a \in Range(submitted) : \A i \in UnresolvedDerivativeOrders :
            /\ \A k \in EventsFor(a, i) :
                  events[a][k] = [call |-> "log", level |-> "warning",
                                  text |-> "Invalid F&O instrument, skipping",
                                  idx |-> i]
            /\ pos[a] > i => EventsFor(a, i) # {}
            /\ (pos[a] = i /\ task[a] = "running") => step[a] = "lookup"
            /\ task[a] = "raised" => pos[a] # i
            /\ task[a] = "returned" => pos[a] > Len(order_config)

\* a task skipped a derivative order and then placed the order after it
C10_Witness ==
    /\ phase = "orders_ret"
    /\ 1 \in UnresolvedDerivativeOrders
    /\ \E a \in Range(submitted) :
         /\ task[a] = "returned"
         /\ EventsFor(a, 1) # {}
         /\ \E k \in EventsFor(a, 2) : events[a][k].call = "place_order"
         /\ Len(account_results[a]) = 1

\* the remote basket calls account a has issued
BasketSubmissions(a) ==
    {k \in 1..Len(events[a]) : events[a][k].call = "place_basket_order"}

\* C11: in execute_basket_on_all_accounts every leg that the task of account X
\* submits to the broker carries the tag X + "_" + the tag configured for the
\* leg ("t1" for every leg of the basket lists): the prefix is the name of the
\* submitting account only, and it is there exactly once.
C11_TagIsOwnPrefixOnce ==
    phase \in {"baskets", "done"} =>
        \A a \in Range(submitted) : \A k \in BasketSubmissions(a) :
            \A j \in 1..Len(events[a][k].basket) :
                events[a][k].basket[j].order_tag = <<a, "t1">>

\* the remote place_order calls account a has issued
OrderSubmissions(a) == {k \in 1..Len(events[a]) : events[a][k].call = "place_order"}

\* C12: in execute_on_all_accounts every individual order that the task of
\* account X submits to the broker carries the tag X + "_" + the tag configured
\* for that order, the empty string when none is configured.
C12_OrderTagIsAccountPrefixed ==
    phase \in {"orders", "orders_ret"} =>
        \A a \in Range(submitted) : \A k \in OrderSubmissions(a) :
            events[a][k].order_tag = <<a>> \o order_config[events[a][k].idx].order_tag

\* two accounts have each submitted a tagged order and an order without a tag
C12_Witness ==
    /\ phase = "orders_ret"
    /\ Len(submitted) >= 2
    /\ \A a \in Range(submitted) :
         /\ \E k \in OrderSubmissions(a) : events[a][k].order_tag = <<a, "t1">>
         /\ \E k \in OrderSubmissions(a) : events[a][k].order_tag = <<a, "">>

\* C13: within the task of one account the orders are executed one after the
\* other in the order of the list: a step of the task works on the order the
\* task is at and on no other, the task moves on by one order at a time, its
\* remote calls and log lines are added in program order for that order, and a
\* result is added at the end of individual_orders when the order is done.
C13_SequentialInOrder ==
    [][(phase = "orders" /\ phase' = "orders") =>
          \A a \in Range(submitted) :
             /\ pos'[a] \in {pos[a], pos[a] + 1}
             /\ Len(events'[a]) >= Len(events[a])
             /\ SubSeq(events'[a], 1, Len(events[a])) = events[a]
             /\ \A k \in (Len(events[a]) + 1)..Len(events'[a]) : events'[a][k].idx = pos[a]
             /\ \/ account_results'[a] = account_results[a]
                \/ /\ pos'[a] = pos[a] + 1
                   /\ Len(account_results'[a]) = Len(account_results[a]) + 1
                   /\ SubSeq(account_results'[a], 1, Len(account_results[a]))
                         = account_results[a]]_vars

\* an account has the results of two orders, a failure then a success, and the
\* remote call of the first order before that of the second, while the task of
\* another account is still at its first order
C13_Witness ==
    /\ phase = "orders"
    /\ \E a, b \in Range(submitted) :
         /\ a # b
         /\ task[b] = "running"
         /\ pos[b] = 1
         /\ Len(account_results[a]) = 2
         /\ "error" \in DOMAIN account_results[a][1]
         /\ account_results[a][2].success
         /\ \E k1, k2 \in OrderSubmissions(a) :
              k1 < k2 /\ events[a][k1].idx = 1 /\ events[a][k2].idx = 2

\* ------------------------------------------------------------------------
\* ThreadedOrchestrator called on its own: execute_on_all_accounts, then
\* execute_basket_on_all_accounts, on the sessions of an AccountManager whose
\* resolvers were all given the instrument table.  The tasks of a pool are
\* threads the scheduler keeps running, and a remote call returns or raises:
\* a step that can be taken is taken in the end.
\* ------------------------------------------------------------------------
\* the sessions mapping after initialize_all: any of the accounts, in any order
SessionOrders ==
    {s \in UNION {[1..n -> Accounts] : n \in 0..NumAccounts} :
        \A i, j \in 1..Len(s) : i # j => s[i] # s[j]}

\* the instrument table after load_and_resolve_instruments: nothing configured,
\* or both keys resolved
LoadedTables ==
    {EmptyDict, Put(Put(EmptyDict, PlainKey, "T1"), FnoKey, "T1")}

InitOrchestrator ==
    /\ ex = ExIdle
    /\ rs = RsIdle
    /\ bk = BkIdle
    /\ caller = "direct"
    /\ accounts_config = [i \in 1..NumAccounts |->
                            [account_name |-> AccountNames[i], enabled |-> TRUE]]
    /\ phase = "loaded"
    /\ abort = ""
    /\ sessions \in SessionOrders
    /\ configured_max \in (1..NumAccounts) \cup {Min(OrchPoolCap, Len(sessions))}
    /\ max_workers = 0
    /\ submitted = <<>>
    /\ task = [a \in Accounts |-> "none"]
    /\ exc = [a \in Accounts |-> ""]
    /\ collected = {}
    /\ hasTable = Range(sessions)
    /\ instruments \in LoadedTables
    /\ cache = [a \in Accounts |-> EmptyDict]
    /\ order_config = <<>>
    /\ baskets_config = <<>>
    /\ pos = [a \in Accounts |-> 0]
    /\ step = [a \in Accounts |-> ""]
    /\ account_results = [a \in Accounts |-> <<>>]
    /\ results = EmptyDict
    /\ events = [a \in Accounts |-> <<>>]

\* the methods are handed a small workload: at most one order, and baskets of
\* at most one leg
NextOrchestrator ==
    \/ ExecuteTestOrders /\ Len(order_config') <= 1
    \/ \E a \in Accounts : OrderTaskStart(a)
    \/ \E a \in Accounts : OrderLookup(a)
    \/ \E a \in Accounts : OrderResolve(a)
    \/ \E a \in Accounts : OrderTaskReturn(a)
    \/ \E a \in Accounts : OrderCollect(a)
    \/ ExecuteOnAllReturn
    \/ ExecuteBasketOrders
          /\ \A i \in 1..Len(baskets_config') : Len(baskets_config'[i].orders) <= 1
    \/ \E a \in Accounts : BasketTaskStart(a)
    \/ \E a \in Accounts : BasketTag(a)
    \/ \E a \in Accounts : BasketExecute(a)
    \/ \E a \in Accounts : BasketTaskReturn(a)
    \/ \E a \in Accounts : BasketCollect(a)
    \/ ExecuteBasketReturn

SpecOrchestrator ==
    InitOrchestrator /\ [][NextOrchestrator]_vars /\ WF_vars(NextOrchestrator)

\* C14: during execute_on_all_accounts and execute_basket_on_all_accounts the
\* number of account tasks running at the same time never exceeds the
\* configured maximum of workers; a queued task starts only while fewer tasks
\* than that are running, and every queued task is started in the end.
C14_PoolBound ==
    /\ [](phase \in {"orders", "baskets"} =>
            Cardinality({a \in Accounts : task[a] = "running"}) <= configured_max)
    /\ [][\A a \in Accounts :
            (phase \in {"orders", "baskets"} /\ task[a] = "queued" /\ task'[a] = "running")
               => Cardinality({b \in Accounts : task[b] = "running"}) < configured_max]_vars
    /\ \A a \in Accounts :
          (phase \in {"orders", "baskets"} /\ task[a] = "queued") ~> (task[a] # "queued")

\* two tasks were submitted to a pool of one worker: one runs, the other waits
C14_Witness ==
    /\ phase = "orders"
    /\ configured_max = 1
    /\ Len(submitted) = 2
    /\ task[submitted[1]] = "running"
    /\ task[submitted[2]] = "queued"

\* ------------------------------------------------------------------------
\* AccountManager called on its own, with more accounts than the pool of
\* initialize_all has workers.  The tasks of the pool are threads the
\* scheduler keeps running, and a login returns or raises.
\* ------------------------------------------------------------------------
ManyAccounts == 6

ManagerAccounts == {AccountNames[i] : i \in 1..ManyAccounts}

InitManager ==
    /\ ex = ExIdle
    /\ rs = RsIdle
    /\ bk = BkIdle
    /\ caller = "direct"
    /\ \E enabled \in [1..ManyAccounts -> BOOLEAN] :
         accounts_config = [i \in 1..ManyAccounts |->
                              [account_name |-> AccountNames[i], enabled |-> enabled[i]]]
    /\ phase = "start"
    /\ abort = ""
    /\ configured_max = 0
    /\ max_workers = 0
    /\ submitted = <<>>
    /\ task = [a \in ManagerAccounts |-> "none"]
    /\ exc = [a \in ManagerAccounts |-> ""]
    /\ collected = {}
    /\ sessions = <<>>
    /\ hasTable = {}
    /\ instruments = EmptyDict
    /\ cache = [a \in ManagerAccounts |-> EmptyDict]
    /\ order_config = <<>>
    /\ baskets_config = <<>>
    /\ pos = [a \in ManagerAccounts |-> 0]
    /\ step = [a \in ManagerAccounts |-> ""]
    /\ account_results = [a \in ManagerAccounts |-> <<>>]
    /\ results = EmptyDict
    /\ events = [a \in ManagerAccounts |-> <<>>]

NextManager ==
    \/ InitializeAll
    \/ \E a \in ManagerAccounts : InitTaskStart(a)
    \/ \E a \in ManagerAccounts : _initialize_single(a)
    \/ \E a \in ManagerAccounts : InitCollect(a)
    \/ InitializeAllReturn

SpecManager == InitManager /\ [][NextManager]_vars /\ WF_vars(NextManager)

\* C15: during initialize_all at most min(5, n_enabled) account
\* initializations are in progress at any time; with more than 5 enabled
\* accounts the remaining ones wait, and every enabled account is in the end
\* initialized (it has a session) or reported as failed.
C15_InitPoolBound ==
    /\ [](phase = "mgr" =>
            LET n_enabled == Cardinality({i \in 1..Len(accounts_config) :
                                            accounts_config[i].enabled})
            IN Cardinality({a \in DOMAIN task : task[a] = "running"})
                  <= (IF n_enabled < 5 THEN n_enabled ELSE 5))
    /\ \A a \in ManagerAccounts :
          (task[a] = "queued")
             ~> (a \in collected /\ (a \in Range(sessions) \/ task[a] = "raised"))

\* six accounts are enabled: five initializations are in progress and the
\* sixth waits
C15_Witness ==
    /\ phase = "mgr"
    /\ Len(submitted) = 6
    /\ Cardinality({a \in DOMAIN task : task[a] = "running"}) = 5
    /\ task[submitted[6]] = "queued"

\* ------------------------------------------------------------------------
\* The account tasks of the orchestrator on a longer workload: up to MaxOrders
\* orders, then up to MaxTaskBaskets baskets
\* ------------------------------------------------------------------------
MaxTaskBaskets == 2

TaskBasketLists == ListsUpTo(BasketKinds, MaxTaskBaskets)

InitAccountTask == InitOrchestrator /\ Len(sessions) <= 1

NextAccountTask ==
    \/ ExecuteTestOrders
    \/ \E a \in Accounts : OrderTaskStart(a)
    \/ \E a \in Accounts : OrderLookup(a)
    \/ \E a \in Accounts : OrderResolve(a)
    \/ \E a \in Accounts : OrderTaskReturn(a)
    \/ \E a \in Accounts : OrderCollect(a)
    \/ ExecuteOnAllReturn
    \/ execute_basket_orders(TaskBasketLists)
    \/ \E a \in Accounts : BasketTaskStart(a)
    \/ \E a \in Accounts : BasketTag(a)
    \/ \E a \in Accounts : BasketExecute(a)
    \/ \E a \in Accounts : BasketTaskReturn(a)
    \/ \E a \in Accounts : BasketCollect(a)
    \/ ExecuteBasketReturn

SpecAccountTask == InitAccountTask /\ [][NextAccountTask]_vars

\* the n-th smallest element of a set of positions
NthOf(S, n) == CHOOSE k \in S : Cardinality({j \in S : j <= k}) = n

\* the entry of an except clause of an account task
IsFailureEntry(entry) == "error" \in DOMAIN entry /\ ~entry.success

\* C16: within the task of one account the failure of one order or basket (a
\* resolution failure, or an exception raised while placing it) never ends the
\* task: only an order without the key "instrument", or a basket entry that is
\* no dict, does; every order or basket before the one the task is at has been
\* processed, a task that returned has gone through the whole list, and the
\* entry of an order or basket is a failure entry exactly when its remote call
\* raised.
C16_FailureDoesNotAbortTask ==
    /\ phase \in {"orders", "orders_ret"} =>
         \A a \in Range(submitted) :
            /\ task[a] = "raised" => ~order_config[pos[a]].has_instrument
            /\ task[a] = "returned" => pos[a] = Len(order_config) + 1
            /\ \A i \in 1..(pos[a] - 1) : EventsFor(a, i) # {}
            /\ Len(account_results[a]) = Cardinality(OrderSubmissions(a))
            /\ \A n \in 1..Len(account_results[a]) :
                  IsFailureEntry(account_results[a][n])
                     <=> events[a][NthOf(OrderSubmissions(a), n)].outcome = "raise"
    /\ phase \in {"baskets", "done"} =>
         \A a \in Range(submitted) :
            /\ task[a] = "raised" => ~baskets_config[pos[a]].is_dict
            /\ task[a] = "returned" => pos[a] = Len(baskets_config) + 1
            /\ Len(account_results[a])
                  = Cardinality({i \in 1..(pos[a] - 1) : baskets_config[i].enabled})
            /\ Cardinality({n \in 1..Len(account_results[a]) :
                               IsFailureEntry(account_results[a][n])})
                  = Cardinality({k \in BasketSubmissions(a) :
                                    events[a][k].outcome = "raise"})

\* the first basket of an account failed with an exception of the remote call,
\* its second basket was placed, and the task returned
C16_Witness ==
    /\ phase = "done"
    /\ \E a \in Range(submitted) :
         /\ task[a] = "returned"
         /\ Len(account_results[a]) = 2
         /\ IsFailureEntry(account_results[a][1])
         /\ account_results[a][2].success


\* C17: every remote call of the model returns or raises in one step, and under
\* the fair scheduling of SpecOrchestrator a call of execute_on_all_accounts
\* and a call of execute_basket_on_all_accounts both come to their return;
\* when they have returned, every account a task was submitted for has an
\* entry in the mapping.
C17_MethodsTerminate ==
    /\ (phase = "orders") ~> (phase = "orders_ret")
    /\ (phase = "baskets") ~> (phase = "done")
    /\ [](OrchestratorReturned => Range(submitted) \subseteq DOMAIN results)

\* execute_basket_on_all_accounts has returned a mapping with an entry for each
\* of NumAccounts accounts, the task of one of them having raised
C17_Witness ==
    /\ phase = "done"
    /\ Len(submitted) = NumAccounts
    /\ DOMAIN results = Range(submitted)
    /\ \E a \in Range(submitted) : task[a] = "raised"


\* the texts with which an account task reports that it skips an order
SkipReasons ==
    {"Skipping disabled order", "Invalid F&O instrument, skipping",
     "Dynamic resolution failed, skipping"}

\* the records of the logger calls made for order i of account a
LogRecordsFor(a, i) ==
    {events[a][k] : k \in {j \in EventsFor(a, i) : events[a][j].call = "log"}}

\* TradingTestSuite._print_multi_account_results: the lines printed for each
\* account of the mapping: the account header, the count of successful entries
\* out of all entries, and the error of the account if it has one
_print_multi_account_results(res) ==
    [a \in DOMAIN res |->
        LET orders == IF "individual_orders" \in DOMAIN res[a]
                      THEN res[a].individual_orders ELSE <<>>
            successful == Cardinality({n \in 1..Len(orders) : orders[n].success})
        IN <<[line |-> "account"],
             [line |-> "orders", successful |-> successful, total |-> Len(orders)]>>
           \o (IF "error" \in DOMAIN res[a] /\ res[a].error # ""
               THEN <<[line |-> "error", error |-> res[a].error]>>
               ELSE <<>>)]

\* every order of the list handed over has exactly one place_order call with
\* its one entry in individual_orders, or its skip has left a record with a
\* skip reason that the configured logging emits
EveryOrderHasEntryOrEmittedReason ==
    phase \in {"orders", "orders_ret"} =>
        \A a \in Range(submitted) :
            task[a] = "returned" =>
                /\ Len(account_results[a]) = Cardinality(OrderSubmissions(a))
                /\ \A i \in 1..Len(order_config) :
                      \/ Cardinality(OrderSubmissions(a) \cap EventsFor(a, i)) = 1
                      \/ /\ OrderSubmissions(a) \cap EventsFor(a, i) = {}
                         /\ \E r \in LogRecordsFor(a, i) :
                               r.text \in SkipReasons /\ Emitted(r)

\* the report of the mapping has one line for each entry of individual_orders
ReportHasLinePerOrder ==
    phase = "orders_ret" =>
        \A a \in DOMAIN results :
            task[a] = "returned" =>
                LET lines == _print_multi_account_results(results)[a]
                IN Cardinality({k \in DOMAIN lines : lines[k].line = "order"})
                      = Len(results[a].individual_orders)

\* C18: no requested order is silently dropped: for every account whose task
\* of execute_on_all_accounts has returned and every order of the list handed
\* over, the order has one entry in individual_orders or its skip has a logged
\* reason, and the report gives a per-order breakdown for the account.
C18_NoOrderSilentlyDropped ==
    /\ EveryOrderHasEntryOrEmittedReason
    /\ ReportHasLinePerOrder

\* the same with every logger call counted as a logged reason, whatever its level
OrderHasEntryOrLoggerCall ==
    phase \in {"orders", "orders_ret"} =>
        \A a \in Range(submitted) :
            task[a] = "returned" =>
                /\ Len(account_results[a]) = Cardinality(OrderSubmissions(a))
                /\ \A i \in 1..Len(order_config) :
                      \/ Cardinality(OrderSubmissions(a) \cap EventsFor(a, i)) = 1
                      \/ /\ OrderSubmissions(a) \cap EventsFor(a, i) = {}
                         /\ \E r \in LogRecordsFor(a, i) : r.text \in SkipReasons

\* only the orders skipped as disabled are without an emitted reason
EnabledOrderHasEntryOrEmittedReason ==
    phase \in {"orders", "orders_ret"} =>
        \A a \in Range(submitted) :
            task[a] = "returned" =>
                \A i \in 1..Len(order_config) :
                    order_config[i].enabled =>
                      \/ Cardinality(OrderSubmissions(a) \cap EventsFor(a, i)) = 1
                      \/ \E r \in LogRecordsFor(a, i) :
                            r.text \in SkipReasons /\ Emitted(r)


\* the calls of the resolver whose remote lookup raised
FailedLookups == {i \in 1..Len(rs.calls) : rs.calls[i].lookup.shape = "raise"}

\* C19: no call of resolve_equity or resolve_fno raises; a call whose remote
\* lookup raised returns None and leaves the cache as it was, and the calls
\* after it are resolved as usual: a lookup that gives an object with a token
\* is returned as that instrument.
C19_LookupFailureNotRaised ==
    \A i \in 1..Len(rs.calls) :
        LET c == rs.calls[i]
            after == IF i < Len(rs.calls) THEN rs.calls[i+1].before ELSE rs.cache
        IN /\ c.ret # Raised
           /\ i \in FailedLookups => (c.ret = NoneVal /\ after = c.before)
           /\ (c.lookup.shape = "obj" /\ c.lookup.token # Missing)
                => c.ret = c.lookup.token

\* the lookup of a resolve_equity call raised, and the resolve_fno call after
\* it resolved its instrument
C19_Witness ==
    /\ Len(rs.calls) >= 2
    /\ 1 \in FailedLookups
    /\ rs.calls[1].op = "resolve_equity"
    /\ rs.calls[1].ret = NoneVal
    /\ rs.calls[2].op = "resolve_fno"
    /\ rs.calls[2].ret \in ValidTokens


\* the cache key of a recorded call
CallKey(c) ==
    IF c.op = "resolve_equity" THEN <<c.args[1]>> \o c.args[2]
    ELSE <<c.args[1], c.args[2], c.args[3],
           IF c.args[4] THEN "FUT" ELSE (IF c.args[6] THEN "CE" ELSE "PE") \o c.args[5]>>

\* C20: after a call of resolve_equity or resolve_fno whose remote lookup
\* failed, the cache holds the unresolved marker None for the key of the call,
\* and the next call with the same key issues no remote call.
C20_FailedLookupShortCircuited ==
    \A i \in FailedLookups :
        LET c == rs.calls[i]
            after == IF i < Len(rs.calls) THEN rs.calls[i+1].before ELSE rs.cache
        IN /\ CallKey(c) \in DOMAIN after
           /\ after[CallKey(c)] = NoneVal
           /\ \A j \in (i+1)..Len(rs.calls) :
                 (/\ CallKey(rs.calls[j]) = CallKey(c)
                  /\ \A k \in (i+1)..(j-1) : CallKey(rs.calls[k]) # CallKey(c))
                   => rs.calls[j].remote = <<>>

\* what the resolver does instead: a failed lookup leaves the key out of the
\* cache, and the next call with the same key issues the remote lookup again
FailedLookupIsRepeated ==
    \A i \in FailedLookups :
        LET c == rs.calls[i]
            after == IF i < Len(rs.calls) THEN rs.calls[i+1].before ELSE rs.cache
        IN /\ CallKey(c) \notin DOMAIN after
           /\ \A j \in (i+1)..Len(rs.calls) :
                 (/\ CallKey(rs.calls[j]) = CallKey(c)
                  /\ \A k \in (i+1)..(j-1) : CallKey(rs.calls[k]) # CallKey(c))
                   => Len(rs.calls[j].remote) = 1

\* ------------------------------------------------------------------------
\* Error handling of the executors
\* ------------------------------------------------------------------------
\* C21: when the remote place_order call raises, place_order raises an
\* OrderExecutionError and no exception of another type, and the except clause
\* of the account task catches it: it is the failure of that one order.
C21_RemoteErrorIsOrderExecutionError ==
    (ex.pc = "done" /\ ex.out.remote # <<>> /\ ex.args.outcome.type = "raise")
        => /\ ex.out.raised = "OrderExecutionError"
           /\ ex.out.message = "API Error"
           /\ except_Exception(ex.out.raised)

\* the remote call of a place_order call was issued and raised
C21_Witness ==
    /\ ex.pc = "done"
    /\ Len(ex.out.remote) = 1
    /\ ex.args.outcome = RaiseOutcome
    /\ ex.out.raised = "OrderExecutionError"


\* C22: when the remote place_basket_order call raises, execute_basket raises a
\* BasketOrderExecutionError; a basket with legs that is not submitted because
\* a leg failed to build or to resolve returns a failure result and raises
\* nothing.
C22_BasketErrors ==
    bk.pc = "done" =>
        /\ bk.broker = "raise" => bk.out.raised = "BasketOrderExecutionError"
        /\ bk.broker # "raise" => bk.out.raised = "none"
        /\ (/\ bk.broker = "not called"
            /\ bk.args.basket.enabled
            /\ bk.args.basket.orders # <<>>)
             => /\ bk.out.raised = "none"
                /\ bk.out.result = [success |-> FALSE, message |-> "Order build failed"]

\* the remote call of a basket of MaxLegs legs was issued and raised
C22_Witness ==
    /\ bk.pc = "done"
    /\ bk.broker = "raise"
    /\ Len(bk.args.basket.orders) = MaxLegs
    /\ bk.out.raised = "BasketOrderExecutionError"


\* the place_order calls place_order issued
PlaceCalls == {i \in 1..Len(ex.out.remote) : ex.out.remote[i].call = "place_order"}

\* C23: place_order called with a transaction type, an order type or a product
\* type that is not the name of a member of its enum fails with an error and
\* issues no remote place_order call.
C23_UnrecognizedTypeFailsFast ==
    (/\ ex.pc = "done"
     /\ \/ ex.args.transaction_type \notin TransactionTypeNames
        \/ ex.args.order_type \notin OrderTypeNames
        \/ ex.args.product_type \notin ProductTypeNames)
        => /\ ex.out.raised # "none"
           /\ ex.out.remote = <<>>

\* what holds instead: a name that is no attribute of the enum class at all
\* fails before the remote call, and no default is put in its place
UnknownAttributeFailsFast ==
    (/\ ex.pc = "done"
     /\ \/ ex.args.transaction_type \notin TransactionTypeNames \cup ClassAttributeNames
        \/ ex.args.order_type \notin OrderTypeNames \cup ClassAttributeNames
        \/ ex.args.product_type \notin ProductTypeNames \cup ClassAttributeNames)
        => /\ ex.out.raised \in {"OrderExecutionError", "AttributeError"}
           /\ ex.out.remote = <<>>

\* C24: the payload of the remote place_order call holds an optional field
\* (price, trigger price, stop-loss, square-off, trailing-stop, after-market
\* flag) exactly when the call was given a value for it that is not its
\* default: with price 0.0 and the after-market flag false, neither is sent.
C24_OptionalOnlyWhenNonDefault ==
    ex.pc = "done" =>
        \A i \in PlaceCalls :
            DOMAIN ex.out.remote[i].optional
                = {n \in OptionalNames :
                      ex.args.optional[n] \notin {NoneVal, DefaultOptional[n]}}

\* what holds instead: place_order drops the fields that are None and sends
\* every other one, the price 0.0 and the flag false included
PayloadDropsNoneOnly ==
    ex.pc = "done" =>
        \A i \in PlaceCalls :
            /\ DOMAIN ex.out.remote[i].optional
                  = {n \in OptionalNames : ex.args.optional[n] # NoneVal}
            /\ \A n \in DOMAIN ex.out.remote[i].optional :
                  ex.out.remote[i].optional[n] = ex.args.optional[n]

\* the leg of a basket is built the way the claim says
BasketLegOptionalOnlyWhenNonDefault ==
    (ex.pc = "done" /\ ex.args.optional.price # NoneVal) =>
        DOMAIN basket_optional_fields(ex.args.optional)
            = {n \in OptionalNames :
                  ex.args.optional[n] \notin {NoneVal, DefaultOptional[n]}}


\* ------------------------------------------------------------------------
\* The shared instrument table during execute_on_all_accounts
\* ------------------------------------------------------------------------
\* the events a step adds to the list of account a
NewEvents(a) == SubSeq(events'[a], Len(events[a]) + 1, Len(events'[a]))

\* account a, running, is at the named step of an order that has a key
AtOrderStep(a, s) ==
    /\ phase = "orders"
    /\ task[a] = "running"
    /\ step[a] = s
    /\ pos[a] <= Len(order_config)
    /\ order_config[pos[a]].enabled
    /\ order_config[pos[a]].has_instrument

\* C25: in execute_on_all_accounts, when the task of an account resolves a
\* plain key K that the shared table does not resolve, and the resolution
\* gives an instrument with a token, K maps to that instrument in the shared
\* table from then on; a task that looks K up after that finds it, issues no
\* remote lookup and places the order with the instrument of the table.
C25_ResolvedKeyIsShared ==
    [][\A a \in Accounts :
         /\ (AtOrderStep(a, "resolve") /\ events'[a] # events[a]) =>
               LET K == order_config[pos[a]].instrument
                   found == Get(cache'[a], <<"NSE">> \o K)
               IN ~Unresolved(found) => Get(instruments', K) = found
         /\ (AtOrderStep(a, "lookup") /\ events'[a] # events[a]
                /\ ~Unresolved(Get(instruments, order_config[pos[a]].instrument))) =>
               /\ step'[a] = "lookup"
               /\ Len(NewEvents(a)) = 1
               /\ NewEvents(a)[1].call = "place_order"
               /\ NewEvents(a)[1].instrument
                     = Get(instruments, order_config[pos[a]].instrument)
         /\ (phase = "orders" /\ phase' = "orders") =>
               \A K \in DOMAIN instruments :
                   ~Unresolved(instruments[K]) => Get(instruments', K) = instruments[K]
    ]_vars

\* one account resolved the plain key dynamically, and another account placed
\* an order on that key without a remote lookup of its own
C25_Witness ==
    /\ phase = "orders"
    /\ \E a, b \in Range(submitted) :
         /\ a # b
         /\ \E k \in 1..Len(events[a]) :
               events[a][k].call = "log" /\ events[a][k].text = "Dynamically resolved"
         /\ \E i \in 1..Len(order_config) :
               /\ order_config[i].has_instrument
               /\ order_config[i].instrument = PlainKey
               /\ \E k \in EventsFor(b, i) : events[b][k].call = "place_order"
               /\ \A k \in EventsFor(b, i) : events[b][k].call = "place_order"


\* ---------------------------------------------------------------------------
\* Account tasks that race on one key of the shared instrument table
\* ---------------------------------------------------------------------------

\* The instrument the broker of an account hands out: each session has its own
\* connection, and the Instrument objects of two sessions are distinct objects
AccountToken(a) == IF a = AccountNames[1] THEN "T1" ELSE "T2"

\* What session.alice.get_instrument_by_symbol of account a is taken to do in
\* the race: the lookup raises, or it returns the instrument of that account
RaceLookupResults(a) == {[shape |-> "raise", token |-> Missing],
                         [shape |-> "obj", token |-> AccountToken(a)]}

\* The shared table holds the derivative key and not the plain key; both
\* accounts have a session with the table, and the pool runs one or two tasks
InitTableRace ==
    /\ ex = ExIdle
    /\ rs = RsIdle
    /\ bk = BkIdle
    /\ caller = "direct"
    /\ accounts_config = [i \in 1..NumAccounts |->
                            [account_name |-> AccountNames[i], enabled |-> TRUE]]
    /\ phase = "loaded"
    /\ abort = ""
    /\ sessions \in {s \in SessionOrders : Len(s) = NumAccounts}
    /\ configured_max \in 1..NumAccounts
    /\ max_workers = 0
    /\ submitted = <<>>
    /\ task = [a \in Accounts |-> "none"]
    /\ exc = [a \in Accounts |-> ""]
    /\ collected = {}
    /\ hasTable = Range(sessions)
    /\ instruments = Put(EmptyDict, FnoKey, "T1")
    /\ cache = [a \in Accounts |-> EmptyDict]
    /\ order_config = <<>>
    /\ baskets_config = <<>>
    /\ pos = [a \in Accounts |-> 0]
    /\ step = [a \in Accounts |-> ""]
    /\ account_results = [a \in Accounts |-> <<>>]
    /\ results = EmptyDict
    /\ events = [a \in Accounts |-> <<>>]

NextTableRace ==
    \/ ExecuteTestOrders
    \/ \E a \in Accounts : OrderTaskStart(a)
    \/ \E a \in Accounts : OrderLookup(a)
    \/ \E a \in Accounts : OrderResolveWith(a, RaceLookupResults(a), DriverPlaceOutcomes)
    \/ \E a \in Accounts : OrderTaskReturn(a)
    \/ \E a \in Accounts : OrderCollect(a)
    \/ ExecuteOnAllReturn

SpecTableRace == InitTableRace /\ [][NextTableRace]_vars

\* the instruments account a has stored in the shared table under K: the
\* resolved instrument of each "Dynamically resolved" record of its task
WrittenBy(a, K) ==
    {Get(cache[a], <<"NSE">> \o K) : k \in {k \in 1..Len(events[a]) :
        /\ events[a][k].call = "log"
        /\ events[a][k].text = "Dynamically resolved"
        /\ order_config[events[a][k].idx].instrument = K}}

\* C26: under every interleaving of account tasks that resolve the same key K
\* dynamically, a step changes the shared table only at the key the stepping
\* task is resolving and only to the instrument that task resolved, so no
\* entry of another key is lost or changed; when execute_on_all_accounts has
\* returned, K is absent (no task resolved it) or maps to an instrument that
\* some account task stored, and the other key maps to what it mapped to
\* before the call.
C26_TableNotCorrupted ==
    /\ [][phase = "orders" =>
            \A K \in DOMAIN instruments \cup DOMAIN instruments' :
               Get(instruments', K) # Get(instruments, K) =>
                  \E a \in Accounts :
                     /\ AtOrderStep(a, "resolve")
                     /\ events'[a] # events[a]
                     /\ order_config[pos[a]].instrument = K
                     /\ ~Unresolved(Get(instruments', K))
                     /\ Get(instruments', K) = Get(cache'[a], <<"NSE">> \o K)
        ]_vars
    /\ [](phase = "orders_ret" =>
            /\ DOMAIN instruments \subseteq {PlainKey, FnoKey}
            /\ Get(instruments, FnoKey) = "T1"
            /\ PlainKey \in DOMAIN instruments =>
                  \E a \in Accounts : Get(instruments, PlainKey) \in WrittenBy(a, PlainKey))

\* both account tasks resolved the plain key, to different instruments, and
\* the table holds one of the two after the method has returned
C26_Witness ==
    /\ phase = "orders_ret"
    /\ \A a \in Accounts : WrittenBy(a, PlainKey) # {}
    /\ \E a, b \in Accounts : WrittenBy(a, PlainKey) # WrittenBy(b, PlainKey)
    /\ Get(instruments, PlainKey) = "T2"
    /\ Get(instruments, FnoKey) = "T1"


\* ---------------------------------------------------------------------------
\* Dynamic resolution while a basket is built
\* ---------------------------------------------------------------------------

\* leg i of the basket of the call has a key that resolver.instruments does
\* not resolve when _build_order_dict comes to it: the table the call started
\* with does not resolve it, and no earlier leg has the same key
UnresolvedLeg(i) ==
    LET orders == bk.args.basket.orders
    IN /\ orders[i].has_instrument
       /\ Unresolved(Get(bk.args.table, orders[i].instrument))
       /\ \A j \in 1..(i-1) :
             ~(orders[j].has_instrument /\ orders[j].instrument = orders[i].instrument)

\* the build of the basket failed: a failure result, nothing raised, nothing
\* submitted
BuildFailed ==
    /\ bk.out.raised = "none"
    /\ bk.out.result = [success |-> FALSE, message |-> "Order build failed"]
    /\ BasketCalls(bk.out.remote) = {}

\* C27: while execute_basket builds a basket, a leg whose key the table does
\* not resolve and that has no underscore triggers exactly one resolve_equity
\* call, and if the key is unresolved after it the build fails at that leg; a
\* leg whose unresolved key has an underscore triggers no resolve_equity call
\* and no remote lookup, and the build fails at that leg.
C27_OneResolutionAttempt ==
    (bk.pc = "done" /\ bk.args.basket.enabled /\ bk.args.hasTable) =>
        LET orders == bk.args.basket.orders
            reached == Len(bk.out.attempts)
        IN \A i \in 1..reached :
              LET K == orders[i].instrument
              IN UnresolvedLeg(i) =>
                   IF Len(K) = 1
                   THEN /\ bk.out.attempts[i] = <<K>>
                        /\ Unresolved(Get(bk.out.table, K)) => (reached = i /\ BuildFailed)
                   ELSE /\ bk.out.attempts[i] = <<>>
                        /\ reached = i
                        /\ BuildFailed
                        /\ \A c \in 1..Len(bk.out.remote) :
                              bk.out.remote[c].key # <<"NSE">> \o K

\* the first leg was resolved by a remote lookup of its plain key, and the
\* second leg, an unresolved derivative key, failed the build
C27_Witness ==
    /\ bk.pc = "done"
    /\ bk.args.basket.enabled
    /\ bk.args.hasTable
    /\ Len(bk.args.basket.orders) = 2
    /\ bk.args.basket.orders[1].instrument = PlainKey
    /\ bk.args.basket.orders[2].instrument = FnoKey
    /\ UnresolvedLeg(1)
    /\ UnresolvedLeg(2)
    /\ bk.out.attempts = <<<<PlainKey>>, <<>>>>
    /\ Len(bk.out.remote) = 1
    /\ ~Unresolved(Get(bk.out.table, PlainKey))
    /\ BuildFailed


\* ---------------------------------------------------------------------------
\* BasketOrderExecutor._process_basket_response called on its own, on every
\* response of a bounded shape
\* ---------------------------------------------------------------------------

\* the entries of a list response: a dict with a stat, with an order number,
\* with an empty NOrdNo or with none
BasketRespEntries == [stat : {"Ok", "Not_Ok"}, NOrdNo : {"N1", "N2", "", Missing}]

BasketResponses ==
    {[type |-> "list", stat |-> Missing, NOrdNo |-> Missing, elems |-> l] :
        l \in ListsUpTo(BasketRespEntries, MaxRespLen)}
    \cup {[type |-> "dict", stat |-> s, NOrdNo |-> n, elems |-> <<>>] :
            s \in {"Ok", "Not_Ok", Missing}, n \in {"N1", "N2", "", Missing}}
    \cup {OtherResponse}

InitBasketResponse ==
    /\ \E response \in BasketResponses : bk = [pc |-> "respond", response |-> response]
    /\ ex = ExIdle
    /\ rs = RsIdle
    /\ MainIdle

CallProcessBasketResponse ==
    /\ bk.pc = "respond"
    /\ bk' = [pc |-> "responded", response |-> bk.response,
              result |-> _process_basket_response("B1", bk.response)]
    /\ UNCHANGED <<ex, rs, mainVars>>

NextBasketResponse == CallProcessBasketResponse

SpecBasketResponse == InitBasketResponse /\ [][NextBasketResponse]_vars

\* C28: _process_basket_response gives, for a list response, success exactly
\* when the list is not empty, and as order numbers the order numbers of the
\* entries with stat "Ok" that carry a non-empty one, in response order; for a mapping
\* with stat "Ok", success with the order number of the mapping as the single
\* order number; for any other response, failure with no order numbers.  The
\* success flag is the one _process_response of a single order gives for the
\* same response.
C28_BasketResponseNormalization ==
    bk.pc = "responded" =>
        LET response == bk.response
            result == bk.result
            ok(e) == e.stat = "Ok" /\ e.NOrdNo \notin {Missing, ""}
            okEntries == SelectSeq(response.elems, ok)
        IN /\ result.raw_response = response
           /\ result.success = process_response(response).success
           /\ response.type = "list" =>
                /\ result.success = (response.elems # <<>>)
                /\ result.order_numbers =
                      [i \in 1..Len(okEntries) |-> okEntries[i].NOrdNo]
           /\ (response.type = "dict" /\ response.stat = "Ok") =>
                /\ result.success
                /\ result.order_numbers =
                      <<IF response.NOrdNo = Missing THEN NoneVal ELSE response.NOrdNo>>
           /\ (\/ (response.type = "dict" /\ response.stat # "Ok")
               \/ response.type \notin {"list", "dict"}) =>
                (~result.success /\ result.order_numbers = <<>>)

\* a list response whose first entry is not "Ok" and whose second is: the
\* result is a success with the order number of the second entry only
C28_Witness ==
    /\ bk.pc = "responded"
    /\ bk.response.type = "list"
    /\ Len(bk.response.elems) = 2
    /\ bk.response.elems[1] = [stat |-> "Not_Ok", NOrdNo |-> "N1"]
    /\ bk.response.elems[2] = [stat |-> "Ok", NOrdNo |-> "N2"]
    /\ bk.result.success
    /\ bk.result.order_numbers = <<"N2">>


\* ---------------------------------------------------------------------------
\* The order list and the basket list during the orchestrator methods
\* ---------------------------------------------------------------------------

\* C30: no step of execute_on_all_accounts changes the order list it was
\* handed, and no step of execute_basket_on_all_accounts changes the basket
\* list it was handed, the order_tag of every leg included: when either
\* method returns, the caller's list is what it was before the call.
C30_SpecificationsReadOnly ==
    [][/\ phase = "orders" => order_config' = order_config
       /\ phase = "baskets" => baskets_config' = baskets_config]_vars

\* the order list is not written by any step of execute_on_all_accounts
OrderListReadOnly ==
    [][phase = "orders" => order_config' = order_config]_vars

\* a step of execute_basket_on_all_accounts changes in the basket list nothing
\* but the order_tag of legs
BasketListChangesTagsOnly ==
    [][phase = "baskets" =>
          /\ Len(baskets_config') = Len(baskets_config)
          /\ \A i \in 1..Len(baskets_config) :
                IF baskets_config[i].is_dict
                THEN /\ Len(baskets_config'[i].orders) = Len(baskets_config[i].orders)
                     /\ [baskets_config'[i] EXCEPT !.orders = <<>>]
                           = [baskets_config[i] EXCEPT !.orders = <<>>]
                     /\ \A j \in 1..Len(baskets_config[i].orders) :
                           [baskets_config'[i].orders[j] EXCEPT !.order_tag = <<>>]
                              = [baskets_config[i].orders[j] EXCEPT !.order_tag = <<>>]
                ELSE baskets_config'[i] = baskets_config[i]
      ]_vars


\* ---------------------------------------------------------------------------
\* One workload on fixed sessions with a fixed remote behaviour per account,
\* under every schedule of the pool
\* ---------------------------------------------------------------------------

\* the order list and the basket list of the workload: one equity order, and
\* one basket of one equity leg
FixedOrders == <<OrderSpec(TRUE, PlainKey, "Buy", <<"t1">>)>>
FixedBaskets == <<[is_dict |-> TRUE, name |-> "B1", enabled |-> TRUE,
                   orders |-> <<OrderSpec(TRUE, PlainKey, "Buy", <<"t1">>)>>]>>

\* the broker of the first account knows the symbol, the brokers of the other
\* accounts raise on the lookup; every broker accepts what is placed
FixedLookupResults(a) ==
    IF a = AccountNames[1] THEN {[shape |-> "obj", token |-> "T1"]}
    ELSE {[shape |-> "raise", token |-> Missing]}

FixedPlaceOutcomes == {OkResponse}

\* the sessions in configuration order, the plain key not in the shared table;
\* the pool has one worker or one per account
InitFixedRemote ==
    /\ ex = ExIdle
    /\ rs = RsIdle
    /\ bk = BkIdle
    /\ caller = "direct"
    /\ accounts_config = [i \in 1..NumAccounts |->
                            [account_name |-> AccountNames[i], enabled |-> TRUE]]
    /\ phase = "loaded"
    /\ abort = ""
    /\ sessions = [i \in 1..NumAccounts |-> AccountNames[i]]
    /\ configured_max \in {1, NumAccounts}
    /\ max_workers = 0
    /\ submitted = <<>>
    /\ task = [a \in Accounts |-> "none"]
    /\ exc = [a \in Accounts |-> ""]
    /\ collected = {}
    /\ hasTable = Range(sessions)
    /\ instruments = Put(EmptyDict, FnoKey, "T1")
    /\ cache = [a \in Accounts |-> EmptyDict]
    /\ order_config = <<>>
    /\ baskets_config = <<>>
    /\ pos = [a \in Accounts |-> 0]
    /\ step = [a \in Accounts |-> ""]
    /\ account_results = [a \in Accounts |-> <<>>]
    /\ results = EmptyDict
    /\ events = [a \in Accounts |-> <<>>]

NextFixedRemote ==
    \/ ExecuteTestOrders /\ order_config' = FixedOrders
    \/ \E a \in Accounts : OrderTaskStart(a)
    \/ \E a \in Accounts : OrderLookupWith(a, FixedPlaceOutcomes)
    \/ \E a \in Accounts : OrderResolveWith(a, FixedLookupResults(a), FixedPlaceOutcomes)
    \/ \E a \in Accounts : OrderTaskReturn(a)
    \/ \E a \in Accounts : OrderCollect(a)
    \/ ExecuteOnAllReturn
    \/ ExecuteBasketOrders /\ baskets_config' = FixedBaskets
    \/ \E a \in Accounts : BasketTaskStart(a)
    \/ \E a \in Accounts : BasketTag(a)
    \/ \E a \in Accounts : BasketExecuteWith(a, FixedLookupResults(a), FixedPlaceOutcomes)
    \/ \E a \in Accounts : BasketTaskReturn(a)
    \/ \E a \in Accounts : BasketCollect(a)
    \/ ExecuteBasketReturn

SpecFixedRemote == InitFixedRemote /\ [][NextFixedRemote]_vars

\* what the mapping of execute_on_all_accounts holds for account a: the
\* success flags of its entries; and what a submitted: instrument and tag of
\* each place_order call
OrdersOutcome(a) ==
    LET entries == Get(results, a).individual_orders
        placed == SelectSeq(events[a], LAMBDA e : e.call = "place_order")
    IN [success |-> [i \in 1..Len(entries) |-> entries[i].success],
        payloads |-> [i \in 1..Len(placed) |->
                         [instrument |-> placed[i].instrument,
                          order_tag |-> placed[i].order_tag]]]

\* the same for execute_basket_on_all_accounts: the success flags, and the
\* order_tag of every leg of each place_basket_order call
BasketsOutcome(a) ==
    LET entries == Get(results, a).basket_orders
        placed == SelectSeq(events[a], LAMBDA e : e.call = "place_basket_order")
    IN [success |-> [i \in 1..Len(entries) |-> entries[i].success],
        payloads |-> [i \in 1..Len(placed) |->
                         [j \in 1..Len(placed[i].basket) |->
                             placed[i].basket[j].order_tag]]]

\* the outcome of the schedule that runs the tasks one after the other in
\* submit order: the first account resolves the key and places the order,
\* the others find the key in the table; each basket carries the tags the
\* tasks before it left on the leg
SerialOrdersOutcome(a) ==
    [success |-> <<TRUE>>,
     payloads |-> <<[instrument |-> "T1", order_tag |-> <<a, "t1">>]>>]

SerialBasketsOutcome(a) ==
    LET k == CHOOSE i \in 1..NumAccounts : AccountNames[i] = a
        F[i \in 0..k] == IF i = 0 THEN <<"t1">> ELSE <<AccountNames[i]>> \o F[i-1]
    IN [success |-> <<TRUE>>, payloads |-> << <<F[k]>> >>]

\* C29: for the fixed sessions, order list, basket list and remote behaviour,
\* the mapping each orchestrator method returns and the payloads each account
\* submitted are the same under every schedule: they are those of the schedule
\* that runs the tasks one after the other.
C29_SameOutcomeOnEverySchedule ==
    /\ phase = "orders_ret" => \A a \in Accounts : OrdersOutcome(a) = SerialOrdersOutcome(a)
    /\ phase = "done" => \A a \in Accounts : BasketsOutcome(a) = SerialBasketsOutcome(a)

\* the serial outcome of each method is the outcome of some schedule
SerialOrdersOutcomeReached ==
    /\ phase = "orders_ret"
    /\ \A a \in Accounts : OrdersOutcome(a) = SerialOrdersOutcome(a)

SerialBasketsOutcomeReached ==
    /\ phase = "done"
    /\ \A a \in Accounts : BasketsOutcome(a) = SerialBasketsOutcome(a)

\* execute_on_all_accounts gives the serial outcome under every schedule
OrdersOutcomeIsSerial ==
    phase = "orders_ret" => \A a \in Accounts : OrdersOutcome(a) = SerialOrdersOutcome(a)

\* execute_basket_on_all_accounts gives the serial outcome under every schedule
BasketsOutcomeIsSerial ==
    phase = "done" => \A a \in Accounts : BasketsOutcome(a) = SerialBasketsOutcome(a)


\* ---------------------------------------------------------------------------
\* The shape of the bundle of a completed account task
\* ---------------------------------------------------------------------------

\* C31: in the mapping an orchestrator method has returned, the bundle of
\* every account whose task ran to completion has the two fields
\* individual_orders and basket_orders.
C31_BundleHasBothFields ==
    OrchestratorReturned =>
        \A a \in Range(submitted) :
            task[a] = "returned" =>
                DOMAIN results[a] = {"individual_orders", "basket_orders"}

\* the bundle of a completed task of execute_on_all_accounts has both fields
OrderBundleHasBothFields ==
    phase = "orders_ret" =>
        \A a \in Range(submitted) :
            task[a] = "returned" =>
                DOMAIN results[a] = {"individual_orders", "basket_orders"}

\* the bundle of a completed task of execute_basket_on_all_accounts has the
\* field basket_orders and no other
BasketBundleHasOneField ==
    phase = "done" =>
        \A a \in Range(submitted) :
            task[a] = "returned" => DOMAIN results[a] = {"basket_orders"}


\* ---------------------------------------------------------------------------
\* Configuration errors in a run of TradingTestSuite
\* ---------------------------------------------------------------------------

\* the exceptions with which run ends on a configuration error: a
\* configuration file that does not parse, no enabled account, an empty
\* instrument configuration
ConfigurationErrors ==
    {"initialize: load_master_config raised",
     "_initialize_multi_account: ValueError: No enabled accounts found",
     "load_and_resolve_instruments: ValueError: Instrument config is empty"}

\* some account has logged in or issued a remote call
AccountWorkStarted ==
    \/ submitted # <<>>
    \/ \E a \in Accounts : events[a] # <<>>

\* C32: when a run of TradingTestSuite is aborted by a configuration error,
\* no account work has started: no account task was submitted, no account has
\* authenticated and no remote call was issued.
C32_ConfigErrorAbortsBeforeAccountWork ==
    (caller = "run" /\ phase = "aborted" /\ abort \in ConfigurationErrors)
        => ~AccountWorkStarted

\* the errors of the configuration load and of the account list abort the run
\* before any account work
EarlyConfigErrorsAbortBeforeAccountWork ==
    (caller = "run" /\ phase = "aborted"
        /\ abort \in ConfigurationErrors
                     \ {"load_and_resolve_instruments: ValueError: Instrument config is empty"})
        => ~AccountWorkStarted

\* the empty instrument configuration aborts the run after initialize_all has
\* run the initialization of every enabled account
EmptyInstrumentConfigAbortsAfterLogin ==
    (caller = "run" /\ phase = "aborted"
        /\ abort = "load_and_resolve_instruments: ValueError: Instrument config is empty")
        => /\ submitted = EnabledAccounts(accounts_config)
           /\ \A a \in Range(submitted) : events[a] # <<>> /\ events[a][1].call = "login"


\* ---------------------------------------------------------------------------
\* The size of the worker pools
\* ---------------------------------------------------------------------------

\* the ValueError of ThreadPoolExecutor(max_workers=0), at each of the three
\* places a pool is created
PoolCreationErrors ==
    {"initialize_all: ValueError: max_workers must be greater than 0",
     "execute_on_all_accounts: ValueError: max_workers must be greater than 0",
     "execute_basket_on_all_accounts: ValueError: max_workers must be greater than 0"}

\* C33: every worker pool the program creates has between 1 and 5 workers:
\* the size computed for initialize_all and for the orchestrator is never 0,
\* and the creation of a pool never raises.
C33_PoolSizeBetweenOneAndFive ==
    /\ abort \notin PoolCreationErrors
    /\ phase \in {"mgr", "orders", "baskets"} => max_workers \in 1..5
    /\ phase \in {"ready", "loaded"} => configured_max \in 1..5

\* a pool that was created has between 1 and 5 workers
CreatedPoolHasOneToFiveWorkers ==
    phase \in {"mgr", "orders", "baskets"} => max_workers \in 1..5

\* the creation of a pool raises only for a workload of no account: no enabled
\* account in initialize_all, no session in the orchestrator of a run
PoolCreationFailsOnlyWithoutAccounts ==
    /\ abort = "initialize_all: ValueError: max_workers must be greater than 0"
          => EnabledAccounts(accounts_config) = <<>>
    /\ abort \in PoolCreationErrors
                    \ {"initialize_all: ValueError: max_workers must be greater than 0"}
          => (caller = "run" /\ sessions = <<>> /\ configured_max = 0)


\* ---------------------------------------------------------------------------
\* Submissions per order and per basket
\* ---------------------------------------------------------------------------

\* C34: in one call of execute_on_all_accounts the task of an account issues
\* at most one place_order call for each order of the list, also when the call
\* raised; in one call of execute_basket_on_all_accounts it issues at most one
\* place_basket_order call for each basket of the list.
C34_SubmittedAtMostOnce ==
    /\ phase \in {"orders", "orders_ret"} =>
          \A a \in Range(submitted) : \A i \in 1..Len(order_config) :
              Cardinality({k \in OrderSubmissions(a) : events[a][k].idx = i}) <= 1
    /\ phase \in {"baskets", "done"} =>
          \A a \in Range(submitted) : \A i \in 1..Len(baskets_config) :
              Cardinality({k \in BasketSubmissions(a) : events[a][k].idx = i}) <= 1

\* the remote call of the first order of an account raised; the task made no
\* second call for it, placed the second order and returned
C34_Witness ==
    /\ phase = "orders_ret"
    /\ \E a \in Range(submitted) :
         /\ task[a] = "returned"
         /\ Len(order_config) = 2
         /\ \E k \in OrderSubmissions(a) :
               events[a][k].idx = 1 /\ events[a][k].outcome = "raise"
         /\ \E k \in OrderSubmissions(a) :
               events[a][k].idx = 2 /\ events[a][k].outcome = "dict"
         /\ Cardinality(OrderSubmissions(a)) = 2


\* ---------------------------------------------------------------------------
\* The assignments to the mapping an orchestrator method returns
\* ---------------------------------------------------------------------------

\* C35: while execute_on_all_accounts or execute_basket_on_all_accounts runs,
\* an entry of its mapping is assigned only for an account of the sessions
\* mapping, only once, and only after the task of that account has returned
\* or raised; the bundle assigned for a task that returned is the complete
\* bundle of that task, and an entry is never changed or removed afterwards.
\* When the method has returned, the keys of the mapping are exactly the
\* account names of the sessions mapping.
C35_MappingAssignedOncePerSession ==
    /\ [][(phase \in {"orders", "baskets"} /\ phase' = phase) =>
            /\ \A a \in DOMAIN results : a \in DOMAIN results' /\ results'[a] = results[a]
            /\ \A a \in DOMAIN results' \ DOMAIN results :
                  /\ a \in Range(sessions)
                  /\ task[a] \in {"returned", "raised"}
                  /\ task'[a] = task[a]
                  /\ task[a] = "returned" =>
                        IF phase = "orders"
                        THEN /\ pos[a] = Len(order_config) + 1
                             /\ results'[a] = [individual_orders |-> account_results[a],
                                               basket_orders |-> <<>>]
                        ELSE /\ pos[a] = Len(baskets_config) + 1
                             /\ results'[a] = [basket_orders |-> account_results[a]]
        ]_vars
    /\ [](phase \in {"orders", "baskets"} =>
            \A a \in DOMAIN results : task[a] \in {"returned", "raised"})
    /\ []((OrchestratorReturned /\ max_workers > 0) => DOMAIN results = Range(sessions))

\* the mapping holds the bundle of an account whose task has returned while
\* the task of another account, with an entry in its local list already, is
\* running and has no key in the mapping
C35_Witness ==
    /\ phase = "orders"
    /\ \E a, b \in Range(sessions) :
         /\ task[a] = "returned"
         /\ a \in DOMAIN results
         /\ task[b] = "running"
         /\ account_results[b] # <<>>
         /\ b \notin DOMAIN results


\* ---------------------------------------------------------------------------
\* The instrument of the place_order calls of an account task
\* ---------------------------------------------------------------------------

\* C36: every place_order call the task of an account makes in
\* execute_on_all_accounts carries an instrument with a non-empty token: every
\* remote place_order call of the task has such an instrument, and no entry of
\* its results is the invalid-instrument failure of the executor.
C36_PlacedInstrumentHasToken ==
    phase \in {"orders", "orders_ret"} =>
        \A a \in Range(submitted) :
            /\ \A k \in OrderSubmissions(a) :
                  events[a][k].instrument \notin {NoneVal, EmptyTok, NoTokenAttr, Missing}
            /\ \A n \in 1..Len(account_results[a]) :
                  "error" \in DOMAIN account_results[a][n]
                     => account_results[a][n].error # "Invalid instrument"

\* the table was loaded with an unresolved entry for the plain key; the
\* task of an account resolved the key dynamically and placed the order with
\* the instrument it resolved, and placed another order with the instrument of
\* the table
C36_Witness ==
    /\ phase = "orders_ret"
    /\ Len(order_config) = 2
    /\ order_config[1].instrument = PlainKey
    /\ order_config[2].instrument = FnoKey
    /\ \E a \in Range(submitted) :
         /\ \E k \in EventsFor(a, 1) :
               events[a][k].call = "log" /\ events[a][k].text = "Dynamically resolved"
         /\ \E k \in EventsFor(a, 1) :
               events[a][k].call = "place_order" /\ events[a][k].instrument = "T1"
         /\ \A k \in EventsFor(a, 2) : events[a][k].call = "place_order"
         /\ \E k \in EventsFor(a, 2) : events[a][k].instrument = "T1"


\* ---------------------------------------------------------------------------
\* What dynamic resolution does to the shared instrument table, in the order
\* phase and in the basket phase, on a table with entries from before the run
\* ---------------------------------------------------------------------------

\* the token of the instruments the table holds before the run; no broker
\* hands it out during the run
PreloadedToken == "T0"

\* the table before the run: the derivative key resolved, and the plain key
\* absent, present with an empty token, or resolved
PreloadedTables ==
    {Put(EmptyDict, FnoKey, PreloadedToken),
     Put(Put(EmptyDict, FnoKey, PreloadedToken), PlainKey, EmptyTok),
     Put(Put(EmptyDict, FnoKey, PreloadedToken), PlainKey, PreloadedToken)}

\* what the remote lookup of account a is taken to do: raise, return an
\* instrument with an empty token, or return the instrument of that account
FrameLookupResults(a) ==
    RaceLookupResults(a) \cup {[shape |-> "obj", token |-> EmptyTok]}

InitTableFrame ==
    /\ ex = ExIdle
    /\ rs = RsIdle
    /\ bk = BkIdle
    /\ caller = "direct"
    /\ accounts_config = [i \in 1..NumAccounts |->
                            [account_name |-> AccountNames[i], enabled |-> TRUE]]
    /\ phase = "loaded"
    /\ abort = ""
    /\ sessions = [i \in 1..NumAccounts |-> AccountNames[i]]
    /\ configured_max = NumAccounts
    /\ max_workers = 0
    /\ submitted = <<>>
    /\ task = [a \in Accounts |-> "none"]
    /\ exc = [a \in Accounts |-> ""]
    /\ collected = {}
    /\ hasTable = Range(sessions)
    /\ instruments \in PreloadedTables
    /\ cache = [a \in Accounts |-> EmptyDict]
    /\ order_config = <<>>
    /\ baskets_config = <<>>
    /\ pos = [a \in Accounts |-> 0]
    /\ step = [a \in Accounts |-> ""]
    /\ account_results = [a \in Accounts |-> <<>>]
    /\ results = EmptyDict
    /\ events = [a \in Accounts |-> <<>>]

\* the methods are handed at most one order, and baskets of at most one leg
NextTableFrame ==
    \/ ExecuteTestOrders /\ Len(order_config') <= 1
    \/ \E a \in Accounts : OrderTaskStart(a)
    \/ \E a \in Accounts : OrderLookupWith(a, {OkResponse})
    \/ \E a \in Accounts : OrderResolveWith(a, FrameLookupResults(a), {OkResponse})
    \/ \E a \in Accounts : OrderTaskReturn(a)
    \/ \E a \in Accounts : OrderCollect(a)
    \/ ExecuteOnAllReturn
    \/ ExecuteBasketOrders
          /\ \A i \in 1..Len(baskets_config') : Len(baskets_config'[i].orders) <= 1
    \/ \E a \in Accounts : BasketTaskStart(a)
    \/ \E a \in Accounts : BasketTag(a)
    \/ \E a \in Accounts : BasketExecuteWith(a, FrameLookupResults(a), {OkResponse})
    \/ \E a \in Accounts : BasketTaskReturn(a)
    \/ \E a \in Accounts : BasketCollect(a)
    \/ ExecuteBasketReturn

SpecTableFrame == InitTableFrame /\ [][NextTableFrame]_vars

\* C37: under every interleaving of the account tasks, a step of an
\* orchestrator method removes no entry of the shared instrument table, changes
\* an entry only to an instrument with a non-empty token, and leaves every
\* entry that held an instrument with a token before the run as it is.
C37_TableOnlyGainsResolvedEntries ==
    [][(phase \in {"orders", "baskets"}) =>
          /\ DOMAIN instruments \subseteq DOMAIN instruments'
          /\ \A K \in DOMAIN instruments' :
                Get(instruments', K) # Get(instruments, K) =>
                   instruments'[K] \notin {NoneVal, EmptyTok, NoTokenAttr, Missing}
          /\ \A K \in DOMAIN instruments :
                (instruments[K] = PreloadedToken => instruments'[K] = PreloadedToken)]_vars

\* an order task replaced the entry of empty token of the plain key by the
\* instrument it resolved, and the derivative key holds what it held before
C37_Witness ==
    /\ phase = "orders_ret"
    /\ \E a \in Accounts : WrittenBy(a, PlainKey) # {}
    /\ Get(instruments, PlainKey) \in {"T1", "T2"}
    /\ Get(instruments, FnoKey) = PreloadedToken

\* a basket task added the plain key to the table
BasketTaskAddedKey ==
    /\ phase = "done"
    /\ \E a \in Accounts : \E k \in 1..Len(events[a]) :
          events[a][k].call = "get_instrument_by_symbol"
    /\ Get(instruments, PlainKey) \in {"T1", "T2"}


\* ------------------------------------------------------------------------
\* The result list of a basket task
\* ------------------------------------------------------------------------

\* the positions of the enabled baskets among the first n of the handed list
EnabledBasketPositions(n) == {i \in 1..n : baskets_config[i].enabled}

\* C38: the task of an account in execute_basket_on_all_accounts adds an entry
\* to its result list only for an enabled basket, at the end of the list and
\* once per basket, the entry being a failure record exactly when
\* execute_basket raised; a task that returned holds one entry per enabled
\* basket of the handed list, in the order of the list.
C38_OneEntryPerEnabledBasketInOrder ==
    /\ [](phase \in {"baskets", "done"} =>
            \A a \in Range(submitted) :
               /\ Len(account_results[a])
                     = Cardinality(EnabledBasketPositions(pos[a] - 1))
               /\ task[a] = "returned" =>
                     Len(account_results[a])
                        = Cardinality(EnabledBasketPositions(Len(baskets_config))))
    /\ [][(phase = "baskets" /\ phase' = "baskets") =>
            \A a \in Range(submitted) :
               account_results'[a] # account_results[a] =>
                  /\ baskets_config[pos[a]].enabled
                  /\ pos'[a] = pos[a] + 1
                  /\ Len(account_results'[a]) = Len(account_results[a]) + 1
                  /\ SubSeq(account_results'[a], 1, Len(account_results[a]))
                        = account_results[a]
                  /\ LET entry == account_results'[a][Len(account_results'[a])]
                         new == {k \in (Len(events[a]) + 1)..Len(events'[a]) :
                                    events'[a][k].call = "place_basket_order"}
                     IN /\ \A k \in new : events'[a][k].idx = pos[a]
                        /\ IsFailureEntry(entry)
                              <=> \E k \in new : events'[a][k].outcome = "raise"]_vars

\* a task skipped a disabled basket without an entry, its remote call for the
\* enabled basket after it raised, and the task returned with the one failure
\* record
C38_Witness ==
    /\ phase = "done"
    /\ Len(baskets_config) = 2
    /\ ~baskets_config[1].enabled
    /\ baskets_config[2].enabled
    /\ \E a \in Range(submitted) :
         /\ task[a] = "returned"
         /\ Len(account_results[a]) = 1
         /\ IsFailureEntry(account_results[a][1])

\* the first enabled basket was placed and the second one's remote call
\* raised: the list holds the result and then the failure record
ResultThenFailureRecord ==
    /\ phase = "done"
    /\ \E a \in Range(submitted) :
         /\ task[a] = "returned"
         /\ Len(account_results[a]) = 2
         /\ account_results[a][1].success
         /\ IsFailureEntry(account_results[a][2])
====
